---- MODULE Spec2Model ----
(***************************************************************************)
(* HQLint language server, crate hql-ls: the diagnostic engine of          *)
(* linter.rs (lint and its rule passes) over a source text.                *)
(*                                                                         *)
(* A source text is a sequence of lexemes, each a string; the text itself  *)
(* is their concatenation.  The token source (sqlparser's Tokenizer under  *)
(* HiveDialect, called at linter.rs:30) is modelled on these lexemes: a    *)
(* lexeme yields one token, except that a single quote opens a string      *)
(* literal running to the next unpaired quote.  Texts are chosen so that   *)
(* lexeme boundaries are token boundaries (no two identifier lexemes are   *)
(* adjacent, since the tokenizer would read them as one word).             *)
(***************************************************************************)
EXTENDS Integers, Sequences, FiniteSets, TLC

VARIABLES
    text,                        \* lint's `text` argument, as a lexeme sequence
    config,                      \* lint's `config` argument (LintingConfig)
    tokens,                      \* check_semicolons' `tokens` argument
    pc,                          \* position of the modelled call
    i,                           \* check_semicolons: index of the next token
    last_significant_token_idx,  \* check_semicolons local (0 is None)
    paren_balance,               \* check_semicolons local
    current_statement_keyword,   \* check_semicolons local
    diagnostics,                 \* check_semicolons local result vector
    result,                      \* value returned by lint or by a rule
    RE,                          \* check_hive_variables' static RE (a OnceLock)
    calls,                       \* the lint calls made so far, with their results
    lookahead,                   \* check_missing_comma: the look-ahead index `j`
    inbox,                       \* client messages not yet read by the server
    handlers,                    \* the handler calls made so far, each with its position
    document_map,                \* Backend::document_map
    backend_config,              \* Backend::config, the value behind the RwLock
    config_lock,                 \* the RwLock of Backend::config: its holders
    sent                         \* messages sent to the client, in order

\* The state of the language server (main.rs).
ServerVars == <<inbox, handlers, document_map, backend_config,
               config_lock, sent>>

vars == <<text, config, tokens, pc, i, last_significant_token_idx,
          paren_balance, current_statement_keyword, diagnostics, result,
          RE, calls, lookahead, ServerVars>>

\* ------------------------------------------------------------------ bounds

\* Longest token stream given to check_semicolons, in lexemes.
MaxLen == 4

\* Longest text given to lint, in lexemes.
MaxLintLen == 3

\* Longest text given to a single rule, in lexemes.
MaxRuleLen == 4

\* Longest text given to check_hive_variables, in lexemes.
MaxHiveLen == 3

\* Most lint calls made one after the other.
MaxCalls == 3

\* ------------------------------------------------------------------ text

\* Unquoted words of the token streams given to check_semicolons.
WordLexemes ==
    {"SELECT", "WITH", "INSERT", "CREATE", "EXPLAIN", "DROP", "users", "select"}

\* Unquoted words of the texts given to lint.
LintWordLexemes == {"drop", "id"}

\* `${...}` references.  HiveDialect counts '$', '{' and '}' as identifier
\* characters, so a reference without ':' is read as one unquoted word.
HiveLexemes == {"${}"}

\* Unquoted words of the texts given to the single rules.
RuleWordLexemes == {"a", "b", "from", "Select"}

\* Lexemes the tokenizer reads as (part of) an unquoted word.
IdentLexemes ==
    WordLexemes \cup LintWordLexemes \cup HiveLexemes \cup RuleWordLexemes

\* Delimited identifiers ('"' starts one under HiveDialect).
QuotedLexemes == {"\"select\""}

WhitespaceLexemes == {" ", "\t", "\n"}

\* No two identifier lexemes are adjacent: lexemes are then exactly the
\* pieces the tokenizer cuts the text into.
WellFormed(t) ==
    \A k \in 1..(Len(t) - 1) : ~(t[k] \in IdentLexemes /\ t[k + 1] \in IdentLexemes)

LexemeSeqs(alphabet, n) ==
    UNION {{t \in [1..m -> alphabet] : WellFormed(t)} : m \in 0..n}

\* A character outside ASCII: one char (one column for the tokenizer),
\* two bytes in UTF-8.
EAcute == "é"

\* The length of a lexeme in bytes.
ByteWidth(lex) == IF lex = EAcute THEN 2 ELSE Len(lex)

\* The length of a lexeme in chars.
CharWidth(lex) == IF lex = EAcute THEN 1 ELSE Len(lex)

RECURSIVE ByteLen(_)
\* str::len of the text: its length in bytes.
ByteLen(t) == IF t = <<>> THEN 0 ELSE ByteWidth(Head(t)) + ByteLen(Tail(t))

\* str::to_uppercase on the words of the model's texts.
to_uppercase(s) ==
    CASE s = "select" -> "SELECT"
      [] s = "users"  -> "USERS"
      [] s = "drop"   -> "DROP"
      [] s = "id"     -> "ID"
      [] s = "a"      -> "A"
      [] s = "b"      -> "B"
      [] s = "from"   -> "FROM"
      [] s = "Select" -> "SELECT"
      [] OTHER        -> s

\* --------------------------------------------------------------- tokenizer

Location(l, c) == [line |-> l, column |-> c]

\* The tokenizer's location after reading one lexeme (lines and columns
\* are one-based; a newline starts the next line at column 1).
Advance(loc, lex) ==
    IF lex = "\n" THEN Location(loc.line + 1, 1)
    ELSE Location(loc.line, loc.column + CharWidth(lex))

RECURSIVE AdvanceOver(_, _, _, _)
AdvanceOver(loc, t, from, to) ==
    IF from > to THEN loc
    ELSE AdvanceOver(Advance(loc, t[from]), t, from + 1, to)

\* The Token a lexeme is read as (value is the Word's value, quote_style
\* its quote character or "None").
TokenOf(lex) ==
    CASE lex = "("  -> [type |-> "LParen", value |-> lex, quote_style |-> "None"]
      [] lex = ")"  -> [type |-> "RParen", value |-> lex, quote_style |-> "None"]
      [] lex = ";"  -> [type |-> "SemiColon", value |-> lex, quote_style |-> "None"]
      [] lex = ","  -> [type |-> "Comma", value |-> lex, quote_style |-> "None"]
      [] lex \in WhitespaceLexemes
                    -> [type |-> "Whitespace", value |-> lex, quote_style |-> "None"]
      [] lex = "\"select\""
                    -> [type |-> "Word", value |-> "select", quote_style |-> "\""]
      [] lex = EAcute -> [type |-> "Char", value |-> lex, quote_style |-> "None"]
      [] OTHER      -> [type |-> "Word", value |-> lex, quote_style |-> "None"]

RECURSIVE StringEnd(_, _)
\* Index of the quote closing a string literal whose content starts at k
\* (a doubled quote is an escaped quote), or 0 when the text ends first.
StringEnd(t, k) ==
    IF k > Len(t) THEN 0
    ELSE IF t[k] = "'"
         THEN IF k + 1 <= Len(t) /\ t[k + 1] = "'"
              THEN StringEnd(t, k + 2)
              ELSE k
         ELSE StringEnd(t, k + 1)

\* TokenizerError's Display: the message followed by its location.
TokenizerErrorText(loc) ==
    "Unterminated string literal at Line: " \o ToString(loc.line)
        \o ", Column: " \o ToString(loc.column)

RECURSIVE TokenizeFrom(_, _, _, _)
TokenizeFrom(t, k, loc, acc) ==
    IF k > Len(t) THEN [ok |-> TRUE, tokens |-> acc, message |-> ""]
    ELSE IF t[k] = "'"
    THEN LET e == StringEnd(t, k + 1) IN
         IF e = 0
         THEN [ok |-> FALSE, tokens |-> <<>>, message |-> TokenizerErrorText(loc)]
         ELSE LET endloc == AdvanceOver(loc, t, k, e) IN
              TokenizeFrom(t, e + 1, endloc,
                  Append(acc, [token |-> [type |-> "SingleQuotedString",
                                          value |-> "'", quote_style |-> "None"],
                               span |-> [start |-> loc, end |-> endloc]]))
    ELSE LET endloc == Advance(loc, t[k]) IN
         TokenizeFrom(t, k + 1, endloc,
             Append(acc, [token |-> TokenOf(t[k]),
                          span |-> [start |-> loc, end |-> endloc]]))

\* Tokenizer::new(&dialect, text).tokenize_with_location()
Tokenize(t) == TokenizeFrom(t, 1, Location(1, 1), <<>>)

\* ------------------------------------------------------------- diagnostics

Position(l, c) == [line |-> l, character |-> c]

Range(s, e) == [start |-> s, end |-> e]

\* Range::default()
DefaultRange == Range(Position(0, 0), Position(0, 0))

\* A Diagnostic: the fields the rules set ("None" for an absent option).
Diagnostic(range, severity, code, source, message) ==
    [range |-> range, severity |-> severity, code |-> code,
     source |-> source, message |-> message]

\* -------------------------------------------------------- check_semicolons

statement_starters ==
    {"SELECT", "INSERT", "UPDATE", "DELETE", "CREATE", "DROP", "ALTER",
     "TRUNCATE", "WITH", "MERGE", "SHOW", "DESCRIBE", "EXPLAIN", "SET", "USE"}

\* current_statement_keyword = None
NoStatement == "None"

\* Variant: whitespace counted as significant.
is_significant_ws(token) == TRUE

is_significant(token) == token.type # "Whitespace"

\* matches!(t, Token::SemiColon) || matches!(t, Token::Char(';'))
is_semicolon(token) ==
    \/ token.type = "SemiColon"
    \/ token.type = "Char" /\ token.value = ";"

\* Variant: any starter continues an open WITH, INSERT, CREATE or EXPLAIN.
is_continuation_any(upper, current) ==
    current # NoStatement /\ current \in {"WITH", "INSERT", "CREATE", "EXPLAIN"}

\* The continuation decision of the Word arm.
is_continuation(upper, current) ==
    /\ current # NoStatement
    /\ upper = "SELECT"
    /\ current \in {"WITH", "INSERT", "CREATE", "EXPLAIN"}

\* The zero-width range at the end of a token's span, zero-based.
EndOfToken(span) ==
    Range(Position(span.end.line - 1, span.end.column - 1),
          Position(span.end.line - 1, span.end.column - 1))

MissingSemicolon(span, message) ==
    Diagnostic(EndOfToken(span), "INFORMATION", "missing-semicolon", "hql-ls", message)

\* The loop variables of check_semicolons.
SemiState(idx, bal, kw, diags) ==
    [last_significant_token_idx |-> idx, paren_balance |-> bal,
     current_statement_keyword |-> kw, diagnostics |-> diags]

SemiInit == SemiState(0, 0, NoStatement, <<>>)

\* Variant: the paren depth is not consulted.
StarterAtDepthZero_anydepth(toks, k, s) ==
    /\ toks[k].token.type = "Word"
    /\ to_uppercase(toks[k].token.value) \in statement_starters

\* The guard of the Word arm's statement handling.
StarterAtDepthZero(toks, k, s) ==
    /\ toks[k].token.type = "Word"
    /\ s.paren_balance = 0
    /\ to_uppercase(toks[k].token.value) \in statement_starters

\* Variant: the diagnostic is placed at the new keyword.
NewStatementDiagnostics_at_keyword(toks, k, s) ==
    IF s.last_significant_token_idx # 0
       /\ ~is_semicolon(toks[s.last_significant_token_idx].token)
    THEN <<Diagnostic(Range(Position(toks[k].span.start.line - 1,
                                     toks[k].span.start.column - 1),
                            Position(toks[k].span.start.line - 1,
                                     toks[k].span.start.column - 1)),
                      "INFORMATION", "missing-semicolon", "hql-ls",
                      "Missing semicolon at end of statement")>>
    ELSE <<>>

\* Diagnostics pushed when a new statement begins at token k.
NewStatementDiagnostics(toks, k, s) ==
    IF s.last_significant_token_idx # 0
       /\ ~is_semicolon(toks[s.last_significant_token_idx].token)
    THEN <<MissingSemicolon(toks[s.last_significant_token_idx].span,
                            "Missing semicolon at end of statement")>>
    ELSE <<>>

\* Variant: a semicolon closes the statement at any depth.
AfterSemicolon_always(s) == NoStatement

\* current_statement_keyword after a semicolon token.
AfterSemicolon(s) ==
    IF s.paren_balance = 0 THEN NoStatement ELSE s.current_statement_keyword

\* Variant: a RightParen decrements the depth whatever it is.
SemiStep_unclamped(toks, k, s) ==
    LET token == toks[k].token
        upper == to_uppercase(token.value)
        bal   == CASE token.type = "LParen" -> s.paren_balance + 1
                   [] token.type = "RParen" -> s.paren_balance - 1
                   [] OTHER -> s.paren_balance
        new   == /\ StarterAtDepthZero(toks, k, s)
                 /\ ~is_continuation(upper, s.current_statement_keyword)
        kw    == CASE is_semicolon(token) -> AfterSemicolon(s)
                   [] new -> upper
                   [] OTHER -> s.current_statement_keyword
        diags == IF new
                 THEN s.diagnostics \o NewStatementDiagnostics(toks, k, s)
                 ELSE s.diagnostics
        idx   == IF is_significant(token) THEN k
                 ELSE s.last_significant_token_idx
    IN SemiState(idx, bal, kw, diags)

\* Variant: a continuation becomes the open statement.
SemiStep_continuation_opens(toks, k, s) ==
    LET token == toks[k].token
        upper == to_uppercase(token.value)
        bal   == CASE token.type = "LParen" -> s.paren_balance + 1
                   [] token.type = "RParen" ->
                        IF s.paren_balance > 0 THEN s.paren_balance - 1
                        ELSE s.paren_balance
                   [] OTHER -> s.paren_balance
        new   == /\ StarterAtDepthZero(toks, k, s)
                 /\ ~is_continuation(upper, s.current_statement_keyword)
        kw    == CASE is_semicolon(token) -> AfterSemicolon(s)
                   [] StarterAtDepthZero(toks, k, s) -> upper
                   [] OTHER -> s.current_statement_keyword
        diags == IF new
                 THEN s.diagnostics \o NewStatementDiagnostics(toks, k, s)
                 ELSE s.diagnostics
        idx   == IF is_significant(token) THEN k
                 ELSE s.last_significant_token_idx
    IN SemiState(idx, bal, kw, diags)

\* One iteration of the loop over tokens: the match on the token, then the
\* update of last_significant_token_idx.
SemiStep(toks, k, s) ==
    LET token == toks[k].token
        upper == to_uppercase(token.value)
        bal   == CASE token.type = "LParen" -> s.paren_balance + 1
                   [] token.type = "RParen" ->
                        IF s.paren_balance > 0 THEN s.paren_balance - 1
                        ELSE s.paren_balance
                   [] OTHER -> s.paren_balance
        new   == /\ StarterAtDepthZero(toks, k, s)
                 /\ ~is_continuation(upper, s.current_statement_keyword)
        kw    == CASE is_semicolon(token) -> AfterSemicolon(s)
                   [] new -> upper
                   [] OTHER -> s.current_statement_keyword
        diags == IF new
                 THEN s.diagnostics \o NewStatementDiagnostics(toks, k, s)
                 ELSE s.diagnostics
        idx   == IF is_significant(token) THEN k
                 ELSE s.last_significant_token_idx
    IN SemiState(idx, bal, kw, diags)

\* Variant: the paren depth is not consulted.
EofCondition_nodepth(s) == s.current_statement_keyword # NoStatement

\* The guard of the end-of-file check.
EofCondition(s) ==
    s.paren_balance = 0 /\ s.current_statement_keyword # NoStatement

\* Variant: the end-of-file diagnostic is put first.
SemiEof_first(toks, s) ==
    IF /\ EofCondition(s)
       /\ s.last_significant_token_idx # 0
       /\ ~is_semicolon(toks[s.last_significant_token_idx].token)
    THEN <<MissingSemicolon(toks[s.last_significant_token_idx].span,
                            "Missing semicolon at end of file")>>
           \o s.diagnostics
    ELSE s.diagnostics

\* The check after the loop; yields the returned vector.
SemiEof(toks, s) ==
    IF /\ EofCondition(s)
       /\ s.last_significant_token_idx # 0
       /\ ~is_semicolon(toks[s.last_significant_token_idx].token)
    THEN s.diagnostics
           \o <<MissingSemicolon(toks[s.last_significant_token_idx].span,
                                 "Missing semicolon at end of file")>>
    ELSE s.diagnostics

RECURSIVE SemiLoop(_, _, _)
\* The loop's state once tokens k..Len(toks) are consumed, from state s.
SemiLoop(toks, k, s) ==
    IF k > Len(toks) THEN s ELSE SemiLoop(toks, k + 1, SemiStep(toks, k, s))

check_semicolons(toks) == SemiEof(toks, SemiLoop(toks, 1, SemiInit))

\* --------------------------------------------------------------- text rules

RECURSIVE LinesFrom(_, _, _)
LinesFrom(t, k, cur) ==
    IF k > Len(t) THEN (IF cur = <<>> THEN <<>> ELSE <<cur>>)
    ELSE IF t[k] = "\n" THEN <<cur>> \o LinesFrom(t, k + 1, <<>>)
    ELSE LinesFrom(t, k + 1, Append(cur, t[k]))

\* str::lines: the lines of the text, each a lexeme sequence; a final
\* newline does not open a further line.
Lines(t) == LinesFrom(t, 1, <<>>)

RECURSIVE trim_end(_)
\* str::trim_end on a line.
trim_end(line) ==
    IF line # <<>> /\ line[Len(line)] \in WhitespaceLexemes
    THEN trim_end(SubSeq(line, 1, Len(line) - 1))
    ELSE line

RECURSIVE trim_start(_)
\* str::trim_start on a line.
trim_start(line) ==
    IF line # <<>> /\ Head(line) \in WhitespaceLexemes
    THEN trim_start(Tail(line))
    ELSE line

\* line.ends_with(' ') || line.ends_with('\t')
EndsWithBlank(line) == line # <<>> /\ line[Len(line)] \in {" ", "\t"}

RECURSIVE TrailingWhitespaceFrom(_, _)
TrailingWhitespaceFrom(lines, n) ==
    IF n > Len(lines) THEN <<>>
    ELSE (IF EndsWithBlank(lines[n])
          THEN <<Diagnostic(Range(Position(n - 1, ByteLen(trim_end(lines[n]))),
                                  Position(n - 1, ByteLen(lines[n]))),
                            "HINT", "trailing-whitespace", "hql-ls",
                            "Trailing whitespace")>>
          ELSE <<>>)
         \o TrailingWhitespaceFrom(lines, n + 1)

check_trailing_whitespace(t) == TrailingWhitespaceFrom(Lines(t), 1)

\* The substrings the pattern \$\{([^}]*)\} matches: the references a text
\* can hold, each a lexeme of its own.
HiveReferences ==
    {"${}", "${ }", "${x}", "${bad:x}", "${env:}", "${env: }", "${env:x}",
     "${:x}", "${env:x:y}", "${bad:}", "${ env:x}"}

\* The characters between "${" and "}" of a reference, one per element.
HiveInner(lex) ==
    CASE lex = "${}"         -> <<>>
      [] lex = "${ }"        -> <<" ">>
      [] lex = "${x}"        -> <<"x">>
      [] lex = "${bad:x}"    -> <<"b", "a", "d", ":", "x">>
      [] lex = "${env:}"     -> <<"e", "n", "v", ":">>
      [] lex = "${env: }"    -> <<"e", "n", "v", ":", " ">>
      [] lex = "${env:x}"    -> <<"e", "n", "v", ":", "x">>
      [] lex = "${:x}"       -> <<":", "x">>
      [] lex = "${env:x:y}"  -> <<"e", "n", "v", ":", "x", ":", "y">>
      [] lex = "${bad:}"     -> <<"b", "a", "d", ":">>
      [] lex = "${ env:x}"   -> <<" ", "e", "n", "v", ":", "x">>

\* An OnceLock that was never set.
Unset == "None"

\* Regex::new(r"\$\{([^}]*)\}")
HivePattern == "\\$\\{([^}]*)\\}"

\* RE.get_or_init(|| ...): the value the lock holds from now on.
get_or_init(lock) == IF lock = Unset THEN HivePattern ELSE lock

valid_namespaces == {"hiveconf", "hivevar", "env", "system", "define"}

\* format!("{:?}", valid_namespaces)
valid_namespaces_debug ==
    "[\"hiveconf\", \"hivevar\", \"env\", \"system\", \"define\"]"

RECURSIVE Join(_)
\* The string made of a sequence of characters.
Join(cs) == IF cs = <<>> THEN "" ELSE Head(cs) \o Join(Tail(cs))

\* s.trim().is_empty()
TrimIsEmpty(cs) == \A k \in 1..Len(cs) : cs[k] \in WhitespaceLexemes

\* Index of the first ':' of the content, 0 when there is none.
FirstColon(cs) ==
    IF \E k \in 1..Len(cs) : cs[k] = ":"
    THEN CHOOSE k \in 1..Len(cs) :
            cs[k] = ":" /\ \A m \in 1..(k - 1) : cs[m] # ":"
    ELSE 0

HiveWarning(range, message) ==
    Diagnostic(range, "WARNING", "None", "hql-ls", message)

\* Variant: no check ends the handling of the match.
HiveMatch_no_continue(inner, range) ==
    (IF TrimIsEmpty(inner)
     THEN <<HiveWarning(range, "Empty Hive variable")>> ELSE <<>>)
    \o (IF FirstColon(inner) = 0
        THEN <<HiveWarning(range,
                 "Invalid Hive variable: missing colon (expected ${namespace:name})")>>
        ELSE <<>>)
    \o (IF FirstColon(inner) # 0
           /\ Join(SubSeq(inner, 1, FirstColon(inner) - 1)) \notin valid_namespaces
        THEN <<HiveWarning(range,
                 "Invalid namespace '"
                     \o Join(SubSeq(inner, 1, FirstColon(inner) - 1))
                     \o "'. Expected: " \o valid_namespaces_debug)>>
        ELSE <<>>)
    \o (IF FirstColon(inner) # 0
           /\ TrimIsEmpty(SubSeq(inner, FirstColon(inner) + 1, Len(inner)))
        THEN <<HiveWarning(range, "Variable name is empty")>>
        ELSE <<>>)

\* The diagnostics of one `${...}` match with the given inner content.
HiveMatch(inner, range) ==
    IF TrimIsEmpty(inner)
    THEN <<HiveWarning(range, "Empty Hive variable")>>
    ELSE IF FirstColon(inner) = 0
    THEN <<HiveWarning(range,
             "Invalid Hive variable: missing colon (expected ${namespace:name})")>>
    ELSE LET namespace == Join(SubSeq(inner, 1, FirstColon(inner) - 1))
             varname   == SubSeq(inner, FirstColon(inner) + 1, Len(inner))
         IN IF namespace \notin valid_namespaces
            THEN <<HiveWarning(range,
                     "Invalid namespace '" \o namespace \o "'. Expected: "
                         \o valid_namespaces_debug)>>
            ELSE IF TrimIsEmpty(varname)
            THEN <<HiveWarning(range, "Variable name is empty")>>
            ELSE <<>>

RECURSIVE HiveLineFrom(_, _, _)
\* The matches of one line (zero-based line number n), from lexeme m on.
HiveLineFrom(line, n, m) ==
    IF m > Len(line) THEN <<>>
    ELSE (IF line[m] \in HiveReferences
          THEN LET start_col == ByteLen(SubSeq(line, 1, m - 1))
                   end_col   == start_col + ByteWidth(line[m])
               IN HiveMatch(HiveInner(line[m]),
                            Range(Position(n, start_col), Position(n, end_col)))
          ELSE <<>>)
         \o HiveLineFrom(line, n, m + 1)

RECURSIVE HiveVariablesFrom(_, _)
HiveVariablesFrom(lines, n) ==
    IF n > Len(lines) THEN <<>>
    ELSE HiveLineFrom(lines[n], n - 1, 1) \o HiveVariablesFrom(lines, n + 1)

check_hive_variables(t) == HiveVariablesFrom(Lines(t), 1)

\* -------------------------------------------------------------- token rules

\* The zero-based range of a token's span.
SpanRange(span) ==
    Range(Position(span.start.line - 1, span.start.column - 1),
          Position(span.end.line - 1, span.end.column - 1))

keywords ==
    {"SELECT", "FROM", "WHERE", "GROUP", "BY", "HAVING", "ORDER", "LIMIT",
     "JOIN", "LEFT", "RIGHT", "INNER", "OUTER", "CROSS", "ON", "AS",
     "AND", "OR", "NOT", "IN", "EXISTS", "BETWEEN", "LIKE", "CASE", "WHEN",
     "THEN", "ELSE", "END",
     "INSERT", "INTO", "VALUES", "UPDATE", "DELETE", "CREATE", "TABLE",
     "DROP", "ALTER"}

\* Variant: the quote style is not consulted.
is_keyword_quoted(word) == to_uppercase(word.value) \in keywords

is_keyword(word) ==
    IF word.quote_style # "None" THEN FALSE
    ELSE to_uppercase(word.value) \in keywords

RECURSIVE KeywordCasingFrom(_, _)
KeywordCasingFrom(toks, k) ==
    IF k > Len(toks) THEN <<>>
    ELSE (IF /\ toks[k].token.type = "Word"
             /\ is_keyword(toks[k].token)
             /\ toks[k].token.value # to_uppercase(toks[k].token.value)
          THEN <<Diagnostic(SpanRange(toks[k].span), "WARNING", "keyword-casing",
                            "hql-ls",
                            "Keyword '" \o toks[k].token.value
                                \o "' should be uppercase")>>
          ELSE <<>>)
         \o KeywordCasingFrom(toks, k + 1)

check_keyword_casing(toks) == KeywordCasingFrom(toks, 1)

RECURSIVE ParenScan_last(_, _, _)
\* Variant: every negative point is recorded, the last one staying.
ParenScan_last(toks, k, s) ==
    IF k > Len(toks) THEN s
    ELSE ParenScan_last(toks, k + 1,
           CASE toks[k].token.type = "LParen" ->
                  [s EXCEPT !.balance = @ + 1]
             [] toks[k].token.type = "RParen" ->
                  [balance |-> s.balance - 1,
                   first_negative_idx |->
                       IF s.balance - 1 < 0 THEN k ELSE s.first_negative_idx]
             [] OTHER -> s)

RECURSIVE ParenScan(_, _, _)
\* The loop of check_parentheses: balance and first_negative_idx (0 is
\* None) once tokens k.. are consumed.
ParenScan(toks, k, s) ==
    IF k > Len(toks) THEN s
    ELSE ParenScan(toks, k + 1,
           CASE toks[k].token.type = "LParen" ->
                  [s EXCEPT !.balance = @ + 1]
             [] toks[k].token.type = "RParen" ->
                  [balance |-> s.balance - 1,
                   first_negative_idx |->
                       IF s.balance - 1 < 0 /\ s.first_negative_idx = 0
                       THEN k ELSE s.first_negative_idx]
             [] OTHER -> s)

\* Variant: a negative point is reported whatever the final balance.
check_parentheses_excursion(toks) ==
    LET s == ParenScan(toks, 1, [balance |-> 0, first_negative_idx |-> 0]) IN
    IF s.first_negative_idx # 0
    THEN <<Diagnostic(SpanRange(toks[s.first_negative_idx].span), "ERROR",
                      "None", "None", "Unbalanced parentheses: extra ')'")>>
    ELSE IF s.balance > 0
    THEN <<Diagnostic(DefaultRange, "ERROR", "None", "None",
                      "Unbalanced parentheses: " \o ToString(s.balance)
                          \o " unclosed '(")>>
    ELSE <<>>

check_parentheses(toks) ==
    LET s == ParenScan(toks, 1, [balance |-> 0, first_negative_idx |-> 0]) IN
    IF s.balance = 0 THEN <<>>
    ELSE IF s.balance > 0
    THEN <<Diagnostic(DefaultRange, "ERROR", "None", "None",
                      "Unbalanced parentheses: " \o ToString(s.balance)
                          \o " unclosed '(")>>
    ELSE IF s.first_negative_idx # 0
    THEN <<Diagnostic(SpanRange(toks[s.first_negative_idx].span), "ERROR",
                      "None", "None", "Unbalanced parentheses: extra ')'")>>
    ELSE <<>>

clause_starters ==
    {"FROM", "WHERE", "GROUP", "ORDER", "HAVING", "LIMIT", "OFFSET", "UNION",
     "LATERAL", "DISTINCT",
     "JOIN", "INNER", "LEFT", "RIGHT", "FULL", "CROSS", "ON", "AS", "USING",
     "WINDOW",
     "AND", "OR", "XOR", "CASE", "WHEN", "THEN", "ELSE", "END", "IS", "NOT",
     "IN", "BETWEEN", "LIKE", "RLIKE", "REGEXP",
     "OVER", "PARTITION", "BY", "ROWS", "RANGE", "UNBOUNDED", "PRECEDING",
     "FOLLOWING", "CURRENT", "ROW"}

RECURSIVE NextNonWhitespace(_, _)
\* The look-ahead loop: the first j >= k whose token is not whitespace,
\* or Len(toks) + 1.
NextNonWhitespace(toks, j) ==
    IF j <= Len(toks) /\ toks[j].token.type = "Whitespace"
    THEN NextNonWhitespace(toks, j + 1)
    ELSE j

RECURSIVE is_char_boundary(_, _)
\* str::is_char_boundary: byte offset `index` of the line does not fall
\* inside a multi-byte character.
is_char_boundary(line, index) ==
    IF index <= 0 \/ line = <<>> THEN TRUE
    ELSE IF index < ByteWidth(Head(line)) THEN Head(line) # EAcute
    ELSE is_char_boundary(Tail(line), index - ByteWidth(Head(line)))

\* What is left of a word when a slice starts inside it: neither
\* whitespace nor a comma.
RestOfLexeme == "<rest>"

RECURSIVE SliceFrom(_, _)
\* &line[slice_start..]: the line from byte offset slice_start on.
SliceFrom(line, slice_start) ==
    IF slice_start <= 0 \/ line = <<>> THEN line
    ELSE IF slice_start < ByteWidth(Head(line))
    THEN <<RestOfLexeme>> \o Tail(line)
    ELSE SliceFrom(Tail(line), slice_start - ByteWidth(Head(line)))

\* text.lines().nth(line - 1).unwrap_or("")
EndLineText(t, span) ==
    IF span.end.line <= Len(Lines(t)) THEN Lines(t)[span.end.line] ELSE <<>>

\* The slice &t1_end_line_text[slice_start..] panics: it is taken (the
\* bounds check passed) at an offset that is not a char boundary.  The
\* offset is a column, counted in chars, used as a byte index.
SlicePanics(t, span) ==
    /\ span.end.column - 1 < ByteLen(EndLineText(t, span))
    /\ ~is_char_boundary(EndLineText(t, span), span.end.column - 1)

\* has_comma_after_t1
HasCommaAfter(t, span) ==
    LET t1_end_line_text == EndLineText(t, span)
        slice_start == span.end.column - 1
    IN /\ slice_start < ByteLen(t1_end_line_text)
       /\ LET remaining_line == trim_start(SliceFrom(t1_end_line_text, slice_start))
          IN remaining_line # <<>> /\ Head(remaining_line) = ","

\* check_missing_comma panics instead of returning: some pair of words on
\* different lines makes the slice panic.
MissingCommaPanics(toks, t) ==
    \E k \in 1..Len(toks) :
        LET j == NextNonWhitespace(toks, k + 1) IN
        /\ toks[k].token.type = "Word"
        /\ j <= Len(toks)
        /\ toks[j].token.type = "Word"
        /\ toks[k].span.end.line < toks[j].span.start.line
        /\ SlicePanics(t, toks[k].span)

RECURSIVE MissingCommaFrom_same_line(_, _, _)
\* Variant: the lines of the two words are not compared.
MissingCommaFrom_same_line(toks, t, k) ==
    IF k > Len(toks) THEN <<>>
    ELSE LET j  == NextNonWhitespace(toks, k + 1)
             t1 == toks[k]
             flagged ==
                 /\ t1.token.type = "Word"
                 /\ j <= Len(toks)
                 /\ toks[j].token.type = "Word"
                 /\ ~HasCommaAfter(t, t1.span)
                 /\ to_uppercase(toks[j].token.value) \notin clause_starters
                 /\ to_uppercase(t1.token.value) \notin clause_starters
                 /\ to_uppercase(t1.token.value) # "SELECT"
         IN (IF flagged
             THEN <<Diagnostic(EndOfToken(t1.span), "WARNING", "missing-comma",
                               "hql-ls",
                               "Possible missing comma between columns in SELECT list")>>
             ELSE <<>>)
            \o MissingCommaFrom_same_line(toks, t, k + 1)

RECURSIVE MissingCommaFrom(_, _, _)
MissingCommaFrom(toks, t, k) ==
    IF k > Len(toks) THEN <<>>
    ELSE LET j  == NextNonWhitespace(toks, k + 1)
             t1 == toks[k]
             flagged ==
                 /\ t1.token.type = "Word"
                 /\ j <= Len(toks)
                 /\ toks[j].token.type = "Word"
                 /\ t1.span.end.line < toks[j].span.start.line
                 /\ ~HasCommaAfter(t, t1.span)
                 /\ to_uppercase(toks[j].token.value) \notin clause_starters
                 /\ to_uppercase(t1.token.value) \notin clause_starters
                 /\ to_uppercase(t1.token.value) # "SELECT"
         IN (IF flagged
             THEN <<Diagnostic(EndOfToken(t1.span), "WARNING", "missing-comma",
                               "hql-ls",
                               "Possible missing comma between columns in SELECT list")>>
             ELSE <<>>)
            \o MissingCommaFrom(toks, t, k + 1)

check_missing_comma(toks, t) == MissingCommaFrom(toks, t, 1)

\* --------------------------------------------------------------------- lint

\* LintingRules
Rules(kc, semi, str, par, tw, mc, hv) ==
    [keyword_casing |-> kc, semicolon |-> semi, string_literal |-> str,
     parentheses |-> par, trailing_whitespace |-> tw, missing_comma |-> mc,
     hive_variable |-> hv]

\* LintingConfig
LintingConfig(enabled, size, rules) ==
    [enabled |-> enabled, severity |-> "Warning", max_file_size |-> size,
     rules |-> rules]

DefaultMaxFileSize == 1048576

\* LintingConfig::default()
DefaultLintingConfig ==
    LintingConfig(TRUE, DefaultMaxFileSize,
                  Rules(FALSE, TRUE, TRUE, TRUE, TRUE, FALSE, TRUE))

\* FormattingConfig
FormattingConfig(enabled, keyword_case, lines_between_queries) ==
    [enabled |-> enabled, keyword_case |-> keyword_case,
     lines_between_queries |-> lines_between_queries]

\* FormattingConfig::default()
DefaultFormattingConfig == FormattingConfig(TRUE, "upper", 1)

\* HqlConfig
HqlConfig(linting, formatting) == [linting |-> linting, formatting |-> formatting]

\* HqlConfig::default()
DefaultHqlConfig == HqlConfig(DefaultLintingConfig, DefaultFormattingConfig)

\* RwLock: no task holds the lock (writer 0 is no writer).
Unlocked == [readers |-> {}, writer |-> 0]

\* The Backend as main constructs it, before any message is handled.
BackendNew ==
    /\ handlers = <<>>
    /\ document_map = <<>>
    /\ backend_config = DefaultHqlConfig
    /\ config_lock = Unlocked
    /\ sent = <<>>

\* Variant: the comparison reversed.
SizeExceeded_lt(t, cfg) == ByteLen(t) < cfg.max_file_size

\* text.len() as u64 > config.max_file_size
SizeExceeded(t, cfg) == ByteLen(t) > cfg.max_file_size

\* 1. Text-based checks
TextRules(t, cfg) ==
    (IF cfg.rules.trailing_whitespace THEN check_trailing_whitespace(t) ELSE <<>>)
    \o (IF cfg.rules.hive_variable THEN check_hive_variables(t) ELSE <<>>)

\* Variant: check_parentheses run before check_semicolons.
TokenRules_parens_first(toks, t, cfg) ==
    (IF cfg.rules.keyword_casing THEN check_keyword_casing(toks) ELSE <<>>)
    \o (IF cfg.rules.parentheses THEN check_parentheses(toks) ELSE <<>>)
    \o (IF cfg.rules.semicolon THEN check_semicolons(toks) ELSE <<>>)
    \o (IF cfg.rules.missing_comma THEN check_missing_comma(toks, t) ELSE <<>>)

\* Variant: check_keyword_casing is run whatever its toggle.
TokenRules_casing_ungated(toks, t, cfg) ==
    check_keyword_casing(toks)
    \o (IF cfg.rules.semicolon THEN check_semicolons(toks) ELSE <<>>)
    \o (IF cfg.rules.parentheses THEN check_parentheses(toks) ELSE <<>>)
    \o (IF cfg.rules.missing_comma THEN check_missing_comma(toks, t) ELSE <<>>)

\* 3. Token-based checks
TokenRules(toks, t, cfg) ==
    (IF cfg.rules.keyword_casing THEN check_keyword_casing(toks) ELSE <<>>)
    \o (IF cfg.rules.semicolon THEN check_semicolons(toks) ELSE <<>>)
    \o (IF cfg.rules.parentheses THEN check_parentheses(toks) ELSE <<>>)
    \o (IF cfg.rules.missing_comma THEN check_missing_comma(toks, t) ELSE <<>>)

\* Variant: the string_literal toggle is not consulted.
TokenizerFailure_always(message, cfg) ==
    <<Diagnostic(DefaultRange, "ERROR", "None", "hql-ls", message)>>

\* The Err arm of the match on the tokenizer's result.
TokenizerFailure(message, cfg) ==
    IF cfg.rules.string_literal
    THEN <<Diagnostic(DefaultRange, "ERROR", "None", "hql-ls", message)>>
    ELSE <<>>

\* lint reaches its call of check_hive_variables.
RunsHiveVariables(t, cfg) ==
    cfg.enabled /\ ~SizeExceeded(t, cfg) /\ cfg.rules.hive_variable

\* The static RE once lint is over.
REAfterLint(t, cfg, lock) ==
    IF RunsHiveVariables(t, cfg) THEN get_or_init(lock) ELSE lock

\* lint panics instead of returning: check_missing_comma is run and panics.
LintPanics(t, cfg) ==
    /\ cfg.enabled
    /\ ~SizeExceeded(t, cfg)
    /\ Tokenize(t).ok
    /\ cfg.rules.missing_comma
    /\ MissingCommaPanics(Tokenize(t).tokens, t)

\* The value lint returns (when it does not panic).
lint(t, cfg) ==
    IF ~cfg.enabled THEN <<>>
    ELSE IF SizeExceeded(t, cfg) THEN <<>>
    ELSE LET tokens_result == Tokenize(t) IN
         TextRules(t, cfg)
         \o (IF tokens_result.ok
             THEN TokenRules(tokens_result.tokens, t, cfg)
             ELSE TokenizerFailure(tokens_result.message, cfg))

\* ----------------------------------------------------------- specifications

\* Lexemes of the token streams given to check_semicolons.
SemiAlphabet == WordLexemes \cup {"(", ")", ";", " ", "\n"}

\* Lexemes of the texts given to lint.
LintAlphabet == LintWordLexemes \cup HiveLexemes \cup {")", " ", "\n", "'"}

\* Longer texts given to lint beside the exhaustive short ones.
LintSamples ==
    {<<"${}", ")", "id", " ", "\n", "drop">>,
     <<")", "id", "\n", "id", " ">>,
     <<"'", "id", "'", " ", "drop">>,
     <<"drop", ")", " ", "\n", "'">>,
     <<"drop", " ", "${}", " ", "\n", "id", "\n", "drop", ")">>,
     <<"'", EAcute, EAcute, EAcute, "'", "a", "\n", "a", " ">>}

LintTexts == LexemeSeqs(LintAlphabet, MaxLintLen) \cup LintSamples

\* Values of max_file_size: one that most of the model's texts exceed and
\* one that only the longest exceed.
SmallMaxFileSize == 6

LargeMaxFileSize == 12

Configs ==
    {LintingConfig(en, size, Rules(kc, semi, str, par, tw, mc, hv)) :
        en \in BOOLEAN, size \in {SmallMaxFileSize, LargeMaxFileSize},
        kc \in BOOLEAN, semi \in BOOLEAN, str \in BOOLEAN,
        par \in BOOLEAN, tw \in BOOLEAN, mc \in BOOLEAN, hv \in BOOLEAN}

\* Longer token streams given to check_semicolons beside the exhaustive
\* short ones: statements with several SELECTs after their opening keyword.
SemiSamples ==
    {<<"WITH", " ", "users", " ", "(", "SELECT", ")", " ", "SELECT", " ",
       "users", " ", "SELECT">>,
     <<"INSERT", " ", "SELECT", "\n", "SELECT", ";", "SELECT", " ", "SELECT">>,
     <<"WITH", " ", "SELECT", " ", "SELECT", " ", "DROP", " ", "SELECT">>,
     <<"EXPLAIN", "(", "SELECT", ";", ")", "SELECT", "\n", "SELECT">>,
     <<"CREATE", " ", ")", "SELECT", " ", "SELECT", "(", "SELECT">>}

\* check_semicolons is entered with a tokenized text.
Init ==
    /\ text \in LexemeSeqs(SemiAlphabet, MaxLen) \cup SemiSamples
    /\ tokens = Tokenize(text).tokens
    /\ config = DefaultLintingConfig
    /\ pc = "loop"
    /\ i = 1
    /\ last_significant_token_idx = SemiInit.last_significant_token_idx
    /\ paren_balance = SemiInit.paren_balance
    /\ current_statement_keyword = SemiInit.current_statement_keyword
    /\ diagnostics = SemiInit.diagnostics
    /\ result = <<>>
    /\ RE = Unset
    /\ calls = <<>>
    /\ lookahead = 0
    /\ inbox = <<>>
    /\ BackendNew

\* The loop variables as one record.
Locals ==
    SemiState(last_significant_token_idx, paren_balance,
              current_statement_keyword, diagnostics)

\* The loop has a token of one of the given types to consume.
AtToken(types) ==
    /\ pc = "loop"
    /\ i <= Len(tokens)
    /\ tokens[i].token.type \in types

\* One iteration of the loop: the body applied to token i.
Iterate ==
    /\ LET s == SemiStep(tokens, i, Locals) IN
         /\ last_significant_token_idx' = s.last_significant_token_idx
         /\ paren_balance' = s.paren_balance
         /\ current_statement_keyword' = s.current_statement_keyword
         /\ diagnostics' = s.diagnostics
    /\ i' = i + 1
    /\ UNCHANGED <<text, config, tokens, pc, result, RE, calls>>
    /\ UNCHANGED <<lookahead, ServerVars>>

OnLParen ==
    /\ AtToken({"LParen"})
    /\ Iterate

OnRParen ==
    /\ AtToken({"RParen"})
    /\ Iterate

OnSemiColon ==
    /\ AtToken({"SemiColon", "Char"})
    /\ is_semicolon(tokens[i].token)
    /\ Iterate

OnWord ==
    /\ AtToken({"Word"})
    /\ Iterate

OnOther ==
    /\ AtToken({"Whitespace", "Comma", "SingleQuotedString", "Char"})
    /\ ~is_semicolon(tokens[i].token)
    /\ Iterate

\* The end-of-file check and the return.
AtEof ==
    /\ pc = "loop"
    /\ i > Len(tokens)
    /\ diagnostics' = SemiEof(tokens, Locals)
    /\ pc' = "done"
    /\ UNCHANGED <<lookahead, ServerVars>>
    /\ UNCHANGED <<text, config, tokens, i, last_significant_token_idx,
                   paren_balance, current_statement_keyword, result, RE, calls>>

Next == OnLParen \/ OnRParen \/ OnSemiColon \/ OnWord \/ OnOther \/ AtEof

Spec == Init /\ [][Next]_vars

\* lint is called on a text under a configuration.
InitLint ==
    /\ text \in LintTexts
    /\ config \in Configs \cup {DefaultLintingConfig}
    /\ tokens = <<>>
    /\ pc = "lint"
    /\ i = 1
    /\ last_significant_token_idx = 0
    /\ paren_balance = 0
    /\ current_statement_keyword = NoStatement
    /\ diagnostics = <<>>
    /\ result = <<>>
    /\ RE \in {Unset, HivePattern}
    /\ calls = <<>>
    /\ lookahead = 0
    /\ inbox = <<>>
    /\ BackendNew

\* The call of lint, to its return.
Lint ==
    /\ pc = "lint"
    /\ ~LintPanics(text, config)
    /\ result' = lint(text, config)
    /\ RE' = REAfterLint(text, config, RE)
    /\ pc' = "returned"
    /\ UNCHANGED <<lookahead, ServerVars>>
    /\ UNCHANGED <<text, config, tokens, i, last_significant_token_idx,
                   paren_balance, current_statement_keyword, diagnostics, calls>>

\* The call of lint, to the panic of check_missing_comma.
LintPanic ==
    /\ pc = "lint"
    /\ LintPanics(text, config)
    /\ RE' = REAfterLint(text, config, RE)
    /\ pc' = "panicked"
    /\ UNCHANGED <<lookahead, ServerVars>>
    /\ UNCHANGED <<text, config, tokens, i, last_significant_token_idx,
                   paren_balance, current_statement_keyword, diagnostics,
                   result, calls>>

NextLint == Lint \/ LintPanic

SpecLint == InitLint /\ [][NextLint]_vars


\* Lexemes of the texts given to each single rule.
ParenAlphabet == {"(", ")", "id", "\n"}

CasingAlphabet == {"select", "SELECT", "Select", "id", "\"select\"", " "}

HiveAlphabet == HiveReferences \cup {" ", "\n", "id"}

TrailingAlphabet == {" ", "\t", "\n", "id", EAcute}

CommaAlphabet == {"a", "from", "select", ",", " ", "\n"}

BoundaryAlphabet == {"SELECT", "WITH", "id", ";", "(", " ", "\n"}

\* Longer texts given to the rules beside the exhaustive short ones.
RuleSamples ==
    {<<"SELECT", "\n", " ", " ", "id", "\n", " ", " ", "a", "\n", "from", " ",
       "users">>,
     <<"a", " ", "\n", " ", "\n", "b", "\n", "from">>,
     <<"a", " ", "b", "\n", "a", ",", "\n", "b">>,
     <<"'", EAcute, EAcute, "'", ",", "a", "\n", "b">>,
     <<"'", EAcute, "'", "a", "\n", "b">>,
     <<"'", EAcute, EAcute, EAcute, "'", "a", "\n", "b">>,
     <<")", "(", ")", "\n", ")", "(">>,
     <<EAcute, " ", "\t", "\n", "id", "\n", "\t">>,
     <<"id", " ", "${bad:}", "${env:x}", "\n", "${env: }", "${}">>,
     <<"(", "\n", "(", ")", "(", "(">>,
     <<"SELECT", " ", "id", "\n", "SELECT", " ", "SELECT", ";", "\n",
       "WITH", " ", "SELECT", "\n", "SELECT">>}

RuleTexts ==
    LexemeSeqs(ParenAlphabet, MaxRuleLen)
        \cup LexemeSeqs(CasingAlphabet, MaxRuleLen)
        \cup LexemeSeqs(HiveAlphabet, MaxHiveLen)
        \cup LexemeSeqs(TrailingAlphabet, MaxRuleLen)
        \cup LexemeSeqs(CommaAlphabet, MaxRuleLen)
        \cup LexemeSeqs(BoundaryAlphabet, MaxRuleLen)
        \cup RuleSamples

\* The text is made of lexemes the token source is modelled on (a
\* reference holding ':' or a blank is not).
Tokenizable(t) ==
    \A k \in 1..Len(t) : t[k] \notin (HiveReferences \ HiveLexemes)

\* One of the rules is called on a text.
InitRules ==
    /\ text \in RuleTexts
    /\ config = DefaultLintingConfig
    /\ tokens = <<>>
    /\ pc = "rule"
    /\ i = 1
    /\ last_significant_token_idx = 0
    /\ paren_balance = 0
    /\ current_statement_keyword = NoStatement
    /\ diagnostics = <<>>
    /\ result = <<>>
    /\ RE \in {Unset, HivePattern}
    /\ calls = <<>>
    /\ lookahead = 0
    /\ inbox = <<>>
    /\ BackendNew

\* What a call of a single rule leaves alone.
RuleFrame ==
    UNCHANGED <<text, config, i, last_significant_token_idx, paren_balance,
                current_statement_keyword, diagnostics, calls, lookahead,
                ServerVars>>

CheckTrailingWhitespace ==
    /\ pc = "rule"
    /\ result' = check_trailing_whitespace(text)
    /\ pc' = "check_trailing_whitespace"
    /\ UNCHANGED <<tokens, RE>>
    /\ RuleFrame

CheckHiveVariables ==
    /\ pc = "rule"
    /\ RE' = get_or_init(RE)
    /\ result' = check_hive_variables(text)
    /\ pc' = "check_hive_variables"
    /\ UNCHANGED tokens
    /\ RuleFrame

\* The text tokenizes: the token rules can be called.
Tokenized ==
    /\ pc = "rule"
    /\ Tokenizable(text)
    /\ Tokenize(text).ok
    /\ tokens' = Tokenize(text).tokens
    /\ UNCHANGED RE

CheckKeywordCasing ==
    /\ Tokenized
    /\ result' = check_keyword_casing(tokens')
    /\ pc' = "check_keyword_casing"
    /\ RuleFrame

CheckSemicolons ==
    /\ Tokenized
    /\ result' = check_semicolons(tokens')
    /\ pc' = "check_semicolons"
    /\ RuleFrame

CheckParentheses ==
    /\ Tokenized
    /\ result' = check_parentheses(tokens')
    /\ pc' = "check_parentheses"
    /\ RuleFrame

CheckMissingComma ==
    /\ Tokenized
    /\ ~MissingCommaPanics(tokens', text)
    /\ result' = check_missing_comma(tokens', text)
    /\ pc' = "check_missing_comma"
    /\ RuleFrame

\* check_missing_comma called, to its panic.
CheckMissingCommaPanic ==
    /\ Tokenized
    /\ MissingCommaPanics(tokens', text)
    /\ pc' = "panicked"
    /\ UNCHANGED result
    /\ RuleFrame

NextRules ==
    \/ CheckTrailingWhitespace
    \/ CheckHiveVariables
    \/ CheckKeywordCasing
    \/ CheckSemicolons
    \/ CheckParentheses
    \/ CheckMissingComma
    \/ CheckMissingCommaPanic

SpecRules == InitRules /\ [][NextRules]_vars

\* The body of check_missing_comma's loop for the word at k, once the
\* look-ahead stopped at token n: the diagnostics it pushes.
PairDiagnostics(toks, t, k, n) ==
    IF /\ toks[n].token.type = "Word"
       /\ toks[k].span.end.line < toks[n].span.start.line
       /\ ~HasCommaAfter(t, toks[k].span)
       /\ to_uppercase(toks[n].token.value) \notin clause_starters
       /\ to_uppercase(toks[k].token.value) \notin clause_starters
       /\ to_uppercase(toks[k].token.value) # "SELECT"
    THEN <<Diagnostic(EndOfToken(toks[k].span), "WARNING", "missing-comma",
                      "hql-ls",
                      "Possible missing comma between columns in SELECT list")>>
    ELSE <<>>

\* The same body panics: the slice of the line is taken off a char
\* boundary.
PairPanics(toks, t, k, n) ==
    /\ toks[n].token.type = "Word"
    /\ toks[k].span.end.line < toks[n].span.start.line
    /\ SlicePanics(t, toks[k].span)

\* Texts given to check_missing_comma when it is run step by step.
CommaTexts ==
    {t \in LexemeSeqs(CommaAlphabet, MaxRuleLen) \cup RuleSamples :
        Tokenizable(t) /\ Tokenize(t).ok}

\* lint calls check_missing_comma on the tokens of its text.
InitComma ==
    /\ text \in CommaTexts
    /\ config = DefaultLintingConfig
    /\ tokens = Tokenize(text).tokens
    /\ pc = "for"
    /\ i = 1
    /\ last_significant_token_idx = 0
    /\ paren_balance = 0
    /\ current_statement_keyword = NoStatement
    /\ diagnostics = <<>>
    /\ result = <<>>
    /\ RE = Unset
    /\ calls = <<>>
    /\ lookahead = 0
    /\ inbox = <<>>
    /\ BackendNew

\* What a step of check_missing_comma leaves alone.
CommaFrame ==
    UNCHANGED <<text, config, tokens, last_significant_token_idx, paren_balance,
                current_statement_keyword, RE, calls, ServerVars>>

\* for i in 0..tokens.len(), at a Word: the look-ahead starts at i + 1.
CommaForWord ==
    /\ pc = "for"
    /\ i <= Len(tokens)
    /\ tokens[i].token.type = "Word"
    /\ lookahead' = i + 1
    /\ pc' = "while"
    /\ UNCHANGED <<i, diagnostics, result>>
    /\ CommaFrame

\* for i in 0..tokens.len(), at any other token: the next i.
CommaForOther ==
    /\ pc = "for"
    /\ i <= Len(tokens)
    /\ tokens[i].token.type # "Word"
    /\ i' = i + 1
    /\ UNCHANGED <<pc, lookahead, diagnostics, result>>
    /\ CommaFrame

\* while j < tokens.len(), at whitespace: j += 1.
CommaWhileSkip ==
    /\ pc = "while"
    /\ lookahead <= Len(tokens)
    /\ tokens[lookahead].token.type = "Whitespace"
    /\ lookahead' = lookahead + 1
    /\ UNCHANGED <<pc, i, diagnostics, result>>
    /\ CommaFrame

\* The look-ahead ran off the stream: continue with the next i.
CommaWhileEnd ==
    /\ pc = "while"
    /\ lookahead > Len(tokens)
    /\ i' = i + 1
    /\ pc' = "for"
    /\ UNCHANGED <<lookahead, diagnostics, result>>
    /\ CommaFrame

\* The look-ahead stopped at a token (break): the pair is examined.
CommaPair ==
    /\ pc = "while"
    /\ lookahead <= Len(tokens)
    /\ tokens[lookahead].token.type # "Whitespace"
    /\ ~PairPanics(tokens, text, i, lookahead)
    /\ diagnostics' = diagnostics \o PairDiagnostics(tokens, text, i, lookahead)
    /\ i' = i + 1
    /\ pc' = "for"
    /\ UNCHANGED <<lookahead, result>>
    /\ CommaFrame

\* The same, to the panic of the slice.
CommaPairPanic ==
    /\ pc = "while"
    /\ lookahead <= Len(tokens)
    /\ tokens[lookahead].token.type # "Whitespace"
    /\ PairPanics(tokens, text, i, lookahead)
    /\ pc' = "panicked"
    /\ UNCHANGED <<i, lookahead, diagnostics, result>>
    /\ CommaFrame

\* The loop is over: check_missing_comma returns its diagnostics.
CommaReturn ==
    /\ pc = "for"
    /\ i > Len(tokens)
    /\ result' = diagnostics
    /\ pc' = "done"
    /\ UNCHANGED <<i, lookahead, diagnostics>>
    /\ CommaFrame

NextComma ==
    \/ CommaForWord
    \/ CommaForOther
    \/ CommaWhileSkip
    \/ CommaWhileEnd
    \/ CommaPair
    \/ CommaPairPanic
    \/ CommaReturn

\* check_missing_comma is synchronous code: once called it runs on until
\* it returns or panics.
SpecMissingComma == InitComma /\ [][NextComma]_vars /\ WF_vars(NextComma)

\* Texts and configurations of successive lint calls.
CallTexts ==
    {<<"drop">>,
     <<"drop", ";">>,
     <<"(", "drop", ")">>,
     <<"id", " ", "\n", "${}">>,
     <<"'", "id">>,
     <<"'", EAcute, EAcute, EAcute, "'", "a", "\n", "a">>}

CallConfigs ==
    {DefaultLintingConfig,
     LintingConfig(TRUE, LargeMaxFileSize,
                   Rules(TRUE, TRUE, TRUE, TRUE, TRUE, TRUE, TRUE)),
     LintingConfig(TRUE, LargeMaxFileSize,
                   Rules(FALSE, TRUE, FALSE, FALSE, FALSE, FALSE, FALSE)),
     LintingConfig(FALSE, LargeMaxFileSize,
                   Rules(TRUE, TRUE, TRUE, TRUE, TRUE, TRUE, TRUE))}

\* No call of lint has been made yet.
InitCalls ==
    /\ text = <<>>
    /\ config = DefaultLintingConfig
    /\ tokens = <<>>
    /\ pc = "idle"
    /\ i = 1
    /\ last_significant_token_idx = 0
    /\ paren_balance = 0
    /\ current_statement_keyword = NoStatement
    /\ diagnostics = <<>>
    /\ result = <<>>
    /\ RE = Unset
    /\ calls = <<>>
    /\ lookahead = 0
    /\ inbox = <<>>
    /\ BackendNew

\* lint reaches its call of check_semicolons.
RunsSemicolons(t, cfg) ==
    /\ cfg.enabled
    /\ ~SizeExceeded(t, cfg)
    /\ Tokenize(t).ok
    /\ cfg.rules.semicolon

\* Variant: current_statement_keyword is a static, kept from one call to
\* the next.
EnterSemicolons_keyword_kept(s) ==
    [SemiInit EXCEPT !.current_statement_keyword = s.current_statement_keyword]

\* The locals of check_semicolons as its `let mut` statements make them
\* at each entry, whatever an earlier call left in them.
EnterSemicolons(s) == SemiInit

\* RE.captures_iter(line) over the lines: the diagnostics of the matches
\* of the pattern the lock holds (the model knows the matches of
\* HivePattern alone).
check_hive_variables_with(re, t) ==
    IF re = HivePattern THEN check_hive_variables(t) ELSE <<>>

\* The value lint returns, assembled from the pattern the static RE holds
\* and from what check_semicolons returned (when it was called).
LintFrom(t, cfg, re, semicolons) ==
    IF ~cfg.enabled THEN <<>>
    ELSE IF SizeExceeded(t, cfg) THEN <<>>
    ELSE LET tokens_result == Tokenize(t) IN
         (IF cfg.rules.trailing_whitespace THEN check_trailing_whitespace(t) ELSE <<>>)
         \o (IF cfg.rules.hive_variable THEN check_hive_variables_with(re, t) ELSE <<>>)
         \o (IF tokens_result.ok
             THEN (IF cfg.rules.keyword_casing
                   THEN check_keyword_casing(tokens_result.tokens) ELSE <<>>)
                  \o (IF cfg.rules.semicolon THEN semicolons ELSE <<>>)
                  \o (IF cfg.rules.parentheses
                      THEN check_parentheses(tokens_result.tokens) ELSE <<>>)
                  \o (IF cfg.rules.missing_comma
                      THEN check_missing_comma(tokens_result.tokens, t) ELSE <<>>)
             ELSE TokenizerFailure(tokens_result.message, cfg))

\* A call of lint that does not reach check_semicolons, to its return.
Call ==
    /\ pc = "idle"
    /\ Len(calls) < MaxCalls
    /\ \E t \in CallTexts, cfg \in CallConfigs :
          /\ ~RunsSemicolons(t, cfg)
          /\ text' = t
          /\ config' = cfg
          /\ RE' = REAfterLint(t, cfg, RE)
          /\ result' = LintFrom(t, cfg, RE', <<>>)
          /\ calls' = Append(calls, [text |-> t, config |-> cfg, result |-> result'])
    /\ UNCHANGED <<pc, tokens, i, last_significant_token_idx, paren_balance,
                   current_statement_keyword, diagnostics>>
    /\ UNCHANGED <<lookahead, ServerVars>>

\* A call of lint, to the entry of check_semicolons: the text rules have
\* run, the text is tokenized and the locals are made.
CallEnter ==
    /\ pc = "idle"
    /\ Len(calls) < MaxCalls
    /\ \E t \in CallTexts, cfg \in CallConfigs :
          /\ RunsSemicolons(t, cfg)
          /\ text' = t
          /\ config' = cfg
          /\ RE' = REAfterLint(t, cfg, RE)
          /\ tokens' = Tokenize(t).tokens
    /\ LET s == EnterSemicolons(Locals) IN
          /\ last_significant_token_idx' = s.last_significant_token_idx
          /\ paren_balance' = s.paren_balance
          /\ current_statement_keyword' = s.current_statement_keyword
          /\ diagnostics' = s.diagnostics
    /\ i' = 1
    /\ pc' = "loop"
    /\ UNCHANGED <<result, calls>>
    /\ UNCHANGED <<lookahead, ServerVars>>

\* check_semicolons has returned; the remaining rules run and lint returns.
CallReturn ==
    /\ pc = "done"
    /\ ~LintPanics(text, config)
    /\ result' = LintFrom(text, config, RE, diagnostics)
    /\ calls' = Append(calls, [text |-> text, config |-> config, result |-> result'])
    /\ pc' = "idle"
    /\ UNCHANGED <<text, config, tokens, i, last_significant_token_idx,
                   paren_balance, current_statement_keyword, diagnostics, RE>>
    /\ UNCHANGED <<lookahead, ServerVars>>

\* check_semicolons has returned; check_missing_comma panics.
CallPanic ==
    /\ pc = "done"
    /\ LintPanics(text, config)
    /\ calls' = Append(calls, [text |-> text, config |-> config, result |-> "panic"])
    /\ pc' = "idle"
    /\ UNCHANGED <<text, config, tokens, i, last_significant_token_idx,
                   paren_balance, current_statement_keyword, diagnostics, RE,
                   result>>
    /\ UNCHANGED <<lookahead, ServerVars>>

\* Successive calls of lint; inside a call the loop of check_semicolons
\* runs step by step on its locals.
NextCalls ==
    \/ Call
    \/ CallEnter
    \/ OnLParen
    \/ OnRParen
    \/ OnSemiColon
    \/ OnWord
    \/ OnOther
    \/ AtEof
    \/ CallReturn
    \/ CallPanic

SpecCalls == InitCalls /\ [][NextCalls]_vars

\* ------------------------------------------------------------------ server

\* serde's rename_all = "camelCase" on the fields of LintingRules.
camelCase(field) ==
    CASE field = "keyword_casing"      -> "keywordCasing"
      [] field = "semicolon"           -> "semicolon"
      [] field = "string_literal"      -> "stringLiteral"
      [] field = "parentheses"         -> "parentheses"
      [] field = "trailing_whitespace" -> "trailingWhitespace"
      [] field = "missing_comma"       -> "missingComma"
      [] field = "hive_variable"       -> "hiveVariable"

\* A JSON value (serde_json::Value) is a function from the paths of its
\* leaves, each a sequence of keys, to the JSON text of the leaf.
JsonBool(b) == IF b THEN "true" ELSE "false"

JsonNumber(n) == ToString(n)

JsonString(str) == "\"" \o str \o "\""

\* The leaves of a serialized HqlConfig.
RulePaths == {<<"linting", "rules", camelCase(f)>> : f \in DOMAIN DefaultLintingConfig.rules}

ConfigPaths ==
    {<<"linting", "enabled">>, <<"linting", "severity">>,
     <<"linting", "maxFileSize">>, <<"formatting", "enabled">>,
     <<"formatting", "keywordCase">>, <<"formatting", "linesBetweenQueries">>}
        \cup RulePaths

\* The field of LintingRules a leaf of "rules" is read into.
FieldOf(key) == CHOOSE f \in DOMAIN DefaultLintingConfig.rules : camelCase(f) = key

\* serde_json::to_value of an HqlConfig (derive(Serialize)).
to_value(cfg) ==
    [p \in ConfigPaths |->
        CASE p = <<"linting", "enabled">>     -> JsonBool(cfg.linting.enabled)
          [] p = <<"linting", "severity">>    -> JsonString(cfg.linting.severity)
          [] p = <<"linting", "maxFileSize">> -> JsonNumber(cfg.linting.max_file_size)
          [] p = <<"formatting", "enabled">>  -> JsonBool(cfg.formatting.enabled)
          [] p = <<"formatting", "keywordCase">> ->
                 JsonString(cfg.formatting.keyword_case)
          [] p = <<"formatting", "linesBetweenQueries">> ->
                 JsonNumber(cfg.formatting.lines_between_queries)
          [] OTHER -> JsonBool(cfg.linting.rules[FieldOf(p[3])])]

\* Value::get(key) is Some: the object has the key.
HasKey(v, key) == \E p \in DOMAIN v : p # <<>> /\ p[1] = key

\* The value under a key of an object.
ValueAt(v, key) ==
    [q \in {Tail(p) : p \in {r \in DOMAIN v : r # <<>> /\ r[1] = key}} |->
        v[<<key>> \o q]]

\* An object holding one value under one key, beside other members.
Under(key, v, others) ==
    [p \in {<<key>> \o q : q \in DOMAIN v} \cup DOMAIN others |->
        IF p \in DOMAIN others THEN others[p] ELSE v[Tail(p)]]

\* settings.get("hql").cloned().unwrap_or(settings)
hql_settings(settings) ==
    IF HasKey(settings, "hql") THEN ValueAt(settings, "hql") ELSE settings

\* The numbers of the model's settings.
JsonNumbers == {1, 2, 300, SmallMaxFileSize, LargeMaxFileSize, DefaultMaxFileSize}

IsBool(v, p) == p \in DOMAIN v /\ v[p] \in {"true", "false"}

\* u8::MAX
MaxU8 == 255

\* The JSON text is a number (every number of the model fits u64).
IsNumber(str) == \E n \in JsonNumbers : JsonNumber(n) = str

\* The leaf is a number that fits u64.
IsU64(v, p) == p \in DOMAIN v /\ IsNumber(v[p])

NumberAt(v, p) == CHOOSE n \in JsonNumbers : JsonNumber(n) = v[p]

\* The leaf is a number that fits u8.
IsU8(v, p) == IsU64(v, p) /\ NumberAt(v, p) <= MaxU8

IsString(v, p) == p \in DOMAIN v /\ SubSeq(v[p], 1, 1) = "\""

StringAt(v, p) == SubSeq(v[p], 2, Len(v[p]) - 1)

\* The character U+0060, which serde's messages put around names and values.
Backtick == SubSeq("`'", 1, 1)

\* Path p leads to a member of v: a leaf, or an object with leaves below.
Present(v, p) ==
    \E q \in DOMAIN v : Len(q) >= Len(p) /\ SubSeq(q, 1, Len(p)) = p

\* serde_json's Error::invalid_type for the value at p: the Display of
\* serde::de::Unexpected, with null spelled out by serde_json.
invalid_type(v, p, expected) ==
    "invalid type: "
        \o (CASE p \notin DOMAIN v -> "map"
              [] v[p] = "null" -> "null"
              [] v[p] \in {"true", "false"} ->
                    "boolean " \o Backtick \o v[p] \o Backtick
              [] IsString(v, p) -> "string " \o v[p]
              [] OTHER -> "integer " \o Backtick \o v[p] \o Backtick)
        \o ", expected " \o expected

\* serde's missing_field, with the member's serialized name.
missing_field(key) == "missing field " \o Backtick \o key \o Backtick

\* The error of deserializing the member at p as bool, String, u64 or u8:
\* "" when it deserializes or is absent.
BoolError(v, p) ==
    IF ~Present(v, p) \/ IsBool(v, p) THEN "" ELSE invalid_type(v, p, "a boolean")

StringError(v, p) ==
    IF ~Present(v, p) \/ IsString(v, p) THEN "" ELSE invalid_type(v, p, "a string")

U64Error(v, p) ==
    IF ~Present(v, p) \/ IsU64(v, p) THEN "" ELSE invalid_type(v, p, "u64")

U8Error(v, p) ==
    CASE ~Present(v, p) \/ IsU8(v, p) -> ""
      [] IsU64(v, p) ->
            "invalid value: integer " \o Backtick \o v[p] \o Backtick
                \o ", expected u8"
      [] OTHER -> invalid_type(v, p, "u8")

\* The first error in a sequence of results, "" when there is none.
FirstError(errors) ==
    IF \A k \in DOMAIN errors : errors[k] = "" THEN ""
    ELSE errors[CHOOSE k \in DOMAIN errors :
                    /\ errors[k] # ""
                    /\ \A m \in 1..(k - 1) : errors[m] = ""]

\* The derived Deserialize of a struct at p, "" when p is absent: a value
\* that is no object is an invalid type; the members present are
\* deserialized in the order the object yields them (serde_json's Map is
\* ordered by key) and the first error returns; then the first field, in
\* declaration order, that no member gave is missing.
StructError(v, p, name, members, fields) ==
    CASE ~Present(v, p) /\ p # <<>> -> ""
      [] p \in DOMAIN v -> invalid_type(v, p, "struct " \o name)
      [] FirstError(members) # "" -> FirstError(members)
      [] OTHER ->
            FirstError([k \in DOMAIN fields |->
                          IF Present(v, Append(p, fields[k])) THEN ""
                          ELSE missing_field(fields[k])])

LintingRulesError(v, p) ==
    StructError(v, p, "LintingRules",
        <<BoolError(v, Append(p, "hiveVariable")),
          BoolError(v, Append(p, "keywordCasing")),
          BoolError(v, Append(p, "missingComma")),
          BoolError(v, Append(p, "parentheses")),
          BoolError(v, Append(p, "semicolon")),
          BoolError(v, Append(p, "stringLiteral")),
          BoolError(v, Append(p, "trailingWhitespace"))>>,
        <<"keywordCasing", "semicolon", "stringLiteral", "parentheses",
          "trailingWhitespace", "missingComma", "hiveVariable">>)

LintingConfigError(v, p) ==
    StructError(v, p, "LintingConfig",
        <<BoolError(v, Append(p, "enabled")),
          U64Error(v, Append(p, "maxFileSize")),
          LintingRulesError(v, Append(p, "rules")),
          StringError(v, Append(p, "severity"))>>,
        <<"enabled", "severity", "maxFileSize", "rules">>)

FormattingConfigError(v, p) ==
    StructError(v, p, "FormattingConfig",
        <<BoolError(v, Append(p, "enabled")),
          StringError(v, Append(p, "keywordCase")),
          U8Error(v, Append(p, "linesBetweenQueries"))>>,
        <<"enabled", "keywordCase", "linesBetweenQueries">>)

HqlConfigError(v) ==
    StructError(v, <<>>, "HqlConfig",
        <<FormattingConfigError(v, <<"formatting">>),
          LintingConfigError(v, <<"linting">>)>>,
        <<"linting", "formatting">>)

\* serde_json::from_value::<HqlConfig>: every field of the four structs
\* is required and typed; members that are no field are ignored. The
\* error is the Display of serde_json's Error.
from_value(v) ==
    IF HqlConfigError(v) = ""
    THEN [ok |-> TRUE,
          value |->
            HqlConfig(
              [enabled |-> v[<<"linting", "enabled">>] = "true",
               severity |-> StringAt(v, <<"linting", "severity">>),
               max_file_size |-> NumberAt(v, <<"linting", "maxFileSize">>),
               rules |-> [f \in DOMAIN DefaultLintingConfig.rules |->
                            v[<<"linting", "rules", camelCase(f)>>] = "true"]],
              FormattingConfig(
                v[<<"formatting", "enabled">>] = "true",
                StringAt(v, <<"formatting", "keywordCase">>),
                NumberAt(v, <<"formatting", "linesBetweenQueries">>)))]
    ELSE [ok |-> FALSE, error |-> HqlConfigError(v)]

\* Configurations a client sets: every rule on with the larger size limit
\* and formatting changed; linting disabled.
AllRulesConfig ==
    HqlConfig(LintingConfig(TRUE, LargeMaxFileSize,
                            Rules(TRUE, TRUE, TRUE, TRUE, TRUE, TRUE, TRUE)),
              FormattingConfig(FALSE, "lower", 2))

DisabledConfig ==
    HqlConfig(LintingConfig(FALSE, DefaultMaxFileSize, DefaultLintingConfig.rules),
              DefaultFormattingConfig)

\* Settings of didChangeConfiguration: a whole configuration at the root;
\* one under "hql" beside another section; the "rules" section alone; one
\* whose linesBetweenQueries does not fit u8.
WholeSettings == to_value(AllRulesConfig)

SectionSettings ==
    Under("hql", to_value(DisabledConfig), [p \in {<<"editor", "tabSize">>} |-> "4"])

PartialSettings == [p \in RulePaths |-> "true"]

OverflowSettings ==
    Under("hql",
          [to_value(AllRulesConfig)
              EXCEPT ![<<"formatting", "linesBetweenQueries">>] = "300"],
          <<>>)

\* Document URIs and texts of the client's messages.
UriA == "file:///a.hql"

UriB == "file:///b.hql"

DropText == <<"drop">>

BlankText == <<"id", " ">>

PanicText == <<"'", EAcute, EAcute, EAcute, "'", "a", "\n", "a">>

\* The params of the three notifications; texts holds the text of a
\* didOpen, the content_changes of a didChange.
DidOpenParams(uri, t) ==
    [method |-> "textDocument/didOpen", uri |-> uri, version |-> 0,
     texts |-> <<t>>, settings |-> <<>>]

DidChangeParams(uri, content_changes) ==
    [method |-> "textDocument/didChange", uri |-> uri, version |-> 0,
     texts |-> content_changes, settings |-> <<>>]

DidChangeConfigurationParams(settings) ==
    [method |-> "workspace/didChangeConfiguration", uri |-> "", version |-> 0,
     texts |-> <<>>, settings |-> settings]

InitializedParams ==
    [method |-> "initialized", uri |-> "", version |-> 0,
     texts |-> <<>>, settings |-> <<>>]

\* Most messages in an exhaustively enumerated session.
MaxMessages == 3

\* The messages sessions are enumerated over.
SessionAlphabet ==
    {DidOpenParams(UriA, DropText),
     DidChangeParams(UriA, <<BlankText>>),
     DidChangeParams(UriB, <<DropText>>),
     DidChangeConfigurationParams(WholeSettings),
     DidChangeConfigurationParams(SectionSettings),
     DidChangeConfigurationParams(PartialSettings)}

\* Further sessions: a change without content and one with two contents,
\* a configuration that does not parse after one that does, a text on
\* which lint panics once missing_comma is on.
SessionSamples ==
    {<<DidOpenParams(UriB, BlankText), DidChangeParams(UriB, <<>>),
       DidChangeParams(UriB, <<DropText, BlankText>>)>>,
     <<DidChangeConfigurationParams(WholeSettings),
       DidChangeConfigurationParams(OverflowSettings),
       DidOpenParams(UriA, DropText), DidChangeParams(UriA, <<DropText>>)>>,
     <<DidChangeConfigurationParams(WholeSettings),
       DidOpenParams(UriA, PanicText), DidChangeParams(UriA, <<DropText>>)>>}

\* The client numbers the versions of its documents by message.
Numbered(session) ==
    [k \in 1..Len(session) |->
        IF session[k].method = "workspace/didChangeConfiguration"
        THEN session[k]
        ELSE [session[k] EXCEPT !.version = k]]

\* What the client sends once the server has answered initialize: the
\* initialized notification, then the session's messages.
Sessions ==
    {<<InitializedParams>> \o Numbered(session) :
        session \in UNION {[1..n -> SessionAlphabet] : n \in 0..MaxMessages}
                        \cup SessionSamples}

\* A handler call: its params, its position, the configuration its lint
\* pass read, and the index in `sent` of the message that reports its
\* work (0 when none yet).
Handler(params, at) ==
    [params |-> params, pc |-> at, snapshot |-> DefaultHqlConfig, sent_at |-> 0]

\* client.log_message(type, message)
LogMessage(type, message) ==
    [method |-> "window/logMessage", type |-> type, message |-> message,
     uri |-> "", version |-> 0, diagnostics |-> <<>>]

\* client.publish_diagnostics(uri, diagnostics, Some(version))
PublishDiagnostics(uri, diags, version) ==
    [method |-> "textDocument/publishDiagnostics", type |-> "", message |-> "",
     uri |-> uri, version |-> version, diagnostics |-> diags]

\* The text on_change is called with: the text of a didOpen, the first
\* content change of a didChange.
OnChangeText(params) == params.texts[1]

\* DashMap::insert
Insert(map, key, value) ==
    [k \in DOMAIN map \cup {key} |-> IF k = key THEN value ELSE map[k]]

\* The server is started; the client's session is still to be read.
InitServer ==
    /\ text = <<>>
    /\ config = DefaultLintingConfig
    /\ tokens = <<>>
    /\ pc = "serve"
    /\ i = 1
    /\ last_significant_token_idx = 0
    /\ paren_balance = 0
    /\ current_statement_keyword = NoStatement
    /\ diagnostics = <<>>
    /\ result = <<>>
    /\ RE = Unset
    /\ calls = <<>>
    /\ lookahead = 0
    /\ inbox \in Sessions
    /\ BackendNew

\* What the server's handlers leave alone: the arguments and locals of the
\* modelled single lint call.
ServerFrame ==
    UNCHANGED <<text, config, tokens, pc, i, last_significant_token_idx,
                paren_balance, current_statement_keyword, diagnostics, result,
                calls, lookahead>>

\* The next message is read and its handler runs to its first await, the
\* log message being sent.
Receive(method, at, message) ==
    /\ inbox # <<>>
    /\ Head(inbox).method = method
    /\ inbox' = Tail(inbox)
    /\ handlers' = Append(handlers, Handler(Head(inbox), at))
    /\ sent' = Append(sent, LogMessage("INFO", message))
    /\ UNCHANGED <<document_map, backend_config, config_lock, RE>>
    /\ ServerFrame

\* initialized: the log message is all it does.
Initialized ==
    /\ inbox # <<>>
    /\ Receive("initialized", "done", "HQL Language Server initialized!")

DidOpen ==
    /\ inbox # <<>>
    /\ Receive("textDocument/didOpen", "on_change",
               "Opened: " \o Head(inbox).uri)

\* did_change: on_change is called only if there is a first content change.
DidChange ==
    /\ inbox # <<>>
    /\ Receive("textDocument/didChange",
               IF Head(inbox).texts # <<>> THEN "on_change" ELSE "done",
               "Changed: " \o Head(inbox).uri)

DidChangeConfiguration ==
    /\ inbox # <<>>
    /\ Receive("workspace/didChangeConfiguration", "parse",
               "Configuration changed")

\* on_change, to its await of the read lock: the text is stored.
Store ==
    \E h \in DOMAIN handlers :
        /\ handlers[h].pc = "on_change"
        /\ document_map' = Insert(document_map, handlers[h].params.uri,
                                  OnChangeText(handlers[h].params))
        /\ handlers' = [handlers EXCEPT ![h].pc = "read"]
        /\ UNCHANGED <<inbox, backend_config, config_lock, sent, RE>>
        /\ ServerFrame

\* Variant: the read guard is a temporary of the lint statement, dropped
\* before the diagnostics are published.
ReadersWhilePublishing_dropped(readers, h) == readers

\* The holders of the read lock while on_change awaits the publication:
\* the guard `config` lives to the end of the function.
ReadersWhilePublishing(readers, h) == readers \cup {h}

\* on_change from the read lock on: the lock is taken, lint runs on the
\* configuration behind it and the publication is sent.
LintAndPublish ==
    \E h \in DOMAIN handlers :
        LET t == OnChangeText(handlers[h].params) IN
        /\ handlers[h].pc = "read"
        /\ config_lock.writer = 0
        /\ ~LintPanics(t, backend_config.linting)
        /\ config_lock' =
              [config_lock EXCEPT !.readers = ReadersWhilePublishing(@, h)]
        /\ RE' = REAfterLint(t, backend_config.linting, RE)
        /\ sent' = Append(sent,
                          PublishDiagnostics(handlers[h].params.uri,
                                             lint(t, backend_config.linting),
                                             handlers[h].params.version))
        /\ handlers' = [handlers EXCEPT ![h].pc = "publishing",
                                        ![h].snapshot = backend_config,
                                        ![h].sent_at = Len(sent) + 1]
        /\ UNCHANGED <<inbox, document_map, backend_config>>
        /\ ServerFrame

\* The same, to the panic of lint: the guard is dropped by the unwinding
\* and nothing is published.
OnChangePanic ==
    \E h \in DOMAIN handlers :
        LET t == OnChangeText(handlers[h].params) IN
        /\ handlers[h].pc = "read"
        /\ config_lock.writer = 0
        /\ LintPanics(t, backend_config.linting)
        /\ RE' = REAfterLint(t, backend_config.linting, RE)
        /\ handlers' = [handlers EXCEPT ![h].pc = "panicked",
                                        ![h].snapshot = backend_config]
        /\ UNCHANGED <<inbox, document_map, backend_config, config_lock, sent>>
        /\ ServerFrame

\* on_change returns once the publication is through: the guard is dropped.
Return ==
    \E h \in DOMAIN handlers :
        /\ handlers[h].pc = "publishing"
        /\ config_lock' = [config_lock EXCEPT !.readers = @ \ {h}]
        /\ handlers' = [handlers EXCEPT ![h].pc = "done"]
        /\ UNCHANGED <<inbox, document_map, backend_config, sent, RE>>
        /\ ServerFrame

\* The settings of a didChangeConfiguration, as a configuration or an error.
Parsed(params) == from_value(hql_settings(params.settings))

\* did_change_configuration, Err arm: the error is logged.
ConfigRejected ==
    \E h \in DOMAIN handlers :
        /\ handlers[h].pc = "parse"
        /\ ~Parsed(handlers[h].params).ok
        /\ sent' = Append(sent,
                          LogMessage("ERROR", "Failed to parse configuration: "
                                         \o Parsed(handlers[h].params).error))
        /\ handlers' = [handlers EXCEPT ![h].pc = "done",
                                        ![h].sent_at = Len(sent) + 1]
        /\ UNCHANGED <<inbox, document_map, backend_config, config_lock, RE>>
        /\ ServerFrame

\* Variant: the linting section alone is replaced.
Assigned_linting_only(old, new_config) == [old EXCEPT !.linting = new_config.linting]

\* *write_lock = new_config
Assigned(old, new_config) == new_config

\* Variant: every open document is linted again and published.
Relint_open_documents(map, cfg) ==
    LET RECURSIVE Each(_)
        Each(uris) ==
            IF uris = {} THEN <<>>
            ELSE LET u == CHOOSE u \in uris : TRUE IN
                 (IF LintPanics(map[u], cfg.linting) THEN <<>>
                  ELSE <<PublishDiagnostics(u, lint(map[u], cfg.linting), 0)>>)
                     \o Each(uris \ {u})
    IN Each(DOMAIN map)

\* The publications a configuration change makes for the open documents:
\* none ("For now, next edit will trigger re-lint").
Relint(map, cfg) == <<>>

\* did_change_configuration, Ok arm: the write lock is taken, the
\* configuration replaced and the update logged.
ConfigWrite ==
    \E h \in DOMAIN handlers :
        LET new_config == Parsed(handlers[h].params).value IN
        /\ handlers[h].pc = "parse"
        /\ Parsed(handlers[h].params).ok
        /\ config_lock = Unlocked
        /\ config_lock' = [config_lock EXCEPT !.writer = h]
        /\ backend_config' = Assigned(backend_config, new_config)
        /\ sent' = Append(sent, LogMessage("INFO", "HQL configuration updated"))
                      \o Relint(document_map, backend_config')
        /\ handlers' = [handlers EXCEPT ![h].pc = "written",
                                        ![h].sent_at = Len(sent) + 1]
        /\ UNCHANGED <<inbox, document_map, RE>>
        /\ ServerFrame

\* did_change_configuration returns once the log message is through: the
\* write guard is dropped.
ConfigReturn ==
    \E h \in DOMAIN handlers :
        /\ handlers[h].pc = "written"
        /\ config_lock' = [config_lock EXCEPT !.writer = 0]
        /\ handlers' = [handlers EXCEPT ![h].pc = "done"]
        /\ UNCHANGED <<inbox, document_map, backend_config, sent, RE>>
        /\ ServerFrame

NextServer ==
    \/ Initialized
    \/ DidOpen
    \/ DidChange
    \/ DidChangeConfiguration
    \/ Store
    \/ LintAndPublish
    \/ OnChangePanic
    \/ Return
    \/ ConfigRejected
    \/ ConfigWrite
    \/ ConfigReturn

\* The handlers of the messages read so far run concurrently: each step
\* is the run of one handler from one await to the next.
SpecServer == InitServer /\ [][NextServer]_vars

\* ------------------------------------------------------------------- claims

\* Index of the last non-whitespace token before index k, 0 when none.
PrevNonWhitespace(toks, k) ==
    IF \E m \in 1..(k - 1) : toks[m].token.type # "Whitespace"
    THEN CHOOSE m \in 1..(k - 1) :
            /\ toks[m].token.type # "Whitespace"
            /\ \A n \in (m + 1)..(k - 1) : toks[n].token.type = "Whitespace"
    ELSE 0

\* The zero-width diagnostic range at the end of token p.
ZeroWidthAtEnd(toks, p) ==
    [start |-> [line |-> toks[p].span.end.line - 1,
                character |-> toks[p].span.end.column - 1],
     end   |-> [line |-> toks[p].span.end.line - 1,
                character |-> toks[p].span.end.column - 1]]

\* The loop is about to consume a Word whose uppercased text is a
\* statement starter.
AtStarter ==
    /\ pc = "loop"
    /\ i <= Len(tokens)
    /\ tokens[i].token.type = "Word"
    /\ to_uppercase(tokens[i].token.value) \in statement_starters

\* The starter about to be consumed is a SELECT continuing an open WITH,
\* INSERT, CREATE or EXPLAIN.
AtContinuation ==
    /\ to_uppercase(tokens[i].token.value) = "SELECT"
    /\ current_statement_keyword \in {"WITH", "INSERT", "CREATE", "EXPLAIN"}

\* The loop has just consumed token i - 1, a statement-starter Word.
AfterStarter ==
    /\ pc = "loop"
    /\ i > 1
    /\ tokens[i - 1].token.type = "Word"
    /\ to_uppercase(tokens[i - 1].token.value) \in statement_starters

\* C1: lint returns the empty list when config.enabled is false or the
\* byte length of the text is strictly greater than config.max_file_size,
\* whatever the rule toggles.
C1_DisabledOrOversizeReturnsEmpty ==
    (pc = "returned" /\ (~config.enabled \/ ByteLen(text) > config.max_file_size))
        => result = <<>>

\* C1 witness: an enabled lint, every rule on, of an oversize text with
\* trailing whitespace and an unterminated string has returned nothing.
C1_Witness ==
    /\ pc = "returned"
    /\ config.enabled
    /\ \A r \in DOMAIN config.rules : config.rules[r]
    /\ ByteLen(text) > config.max_file_size
    /\ check_trailing_whitespace(text) # <<>>
    /\ ~Tokenize(text).ok
    /\ result = <<>>

\* C2: a statement starter met at depth 0 that is not a continuation
\* emits 'Missing semicolon at end of statement' exactly when an earlier
\* non-whitespace token exists and is not a semicolon; the diagnostic is
\* the zero-width Information at the end of that earlier token; and
\* openStatement becomes the starter's uppercased text in either case.
C2_NewStatementChecksPreviousToken ==
    [][(AtStarter /\ paren_balance = 0 /\ ~AtContinuation /\ i' = i + 1) =>
         LET p == PrevNonWhitespace(tokens, i)
             missing == p # 0 /\ tokens[p].token.type # "SemiColon"
         IN /\ (diagnostics' # diagnostics) <=> missing
            /\ missing =>
                 diagnostics' =
                     Append(diagnostics,
                            [range |-> ZeroWidthAtEnd(tokens, p),
                             severity |-> "INFORMATION",
                             code |-> "missing-semicolon",
                             source |-> "hql-ls",
                             message |-> "Missing semicolon at end of statement"])
            /\ current_statement_keyword' = to_uppercase(tokens[i].token.value)
      ]_vars

\* C2 witness: a new statement has just begun after whitespace and the
\* diagnostic sits at the end of the earlier token, before the keyword.
C2_Witness ==
    /\ AfterStarter
    /\ current_statement_keyword = to_uppercase(tokens[i - 1].token.value)
    /\ diagnostics # <<>>
    /\ LET d == diagnostics[Len(diagnostics)]
           p == PrevNonWhitespace(tokens, i - 1)
       IN /\ d.message = "Missing semicolon at end of statement"
          /\ p # 0
          /\ p < i - 2
          /\ d.range = ZeroWidthAtEnd(tokens, p)
          /\ d.range.start # [line |-> tokens[i - 1].span.start.line - 1,
                              character |-> tokens[i - 1].span.start.column - 1]

\* C3: at depth 0 a SELECT met while openStatement is WITH, INSERT, CREATE
\* or EXPLAIN emits nothing and leaves openStatement unchanged; every
\* other statement starter at depth 0 becomes the open statement.
C3_ContinuationOnlyForSelect ==
    [][(AtStarter /\ paren_balance = 0 /\ i' = i + 1) =>
         IF AtContinuation
         THEN /\ diagnostics' = diagnostics
              /\ current_statement_keyword' = current_statement_keyword
         ELSE current_statement_keyword' = to_uppercase(tokens[i].token.value)
      ]_vars

\* C3 witness: a SELECT has just been consumed at depth 0 after a token
\* that is not a semicolon, and the open statement is still the WITH,
\* INSERT, CREATE or EXPLAIN, with no diagnostic.
C3_Witness ==
    /\ AfterStarter
    /\ to_uppercase(tokens[i - 1].token.value) = "SELECT"
    /\ paren_balance = 0
    /\ current_statement_keyword \in {"WITH", "INSERT", "CREATE", "EXPLAIN"}
    /\ PrevNonWhitespace(tokens, i - 1) # 0
    /\ tokens[PrevNonWhitespace(tokens, i - 1)].token.type # "SemiColon"
    /\ diagnostics = <<>>

\* C4: at end of stream exactly one 'Missing semicolon at end of file'
\* Information is emitted, zero-width at the end of the last
\* non-whitespace token, iff paren depth is 0, openStatement is set and
\* the last non-whitespace token is not a semicolon; otherwise nothing.
C4_EndOfFileCheck ==
    [][(pc = "loop" /\ pc' = "done") =>
         LET p == PrevNonWhitespace(tokens, Len(tokens) + 1) IN
         IF /\ paren_balance = 0
            /\ current_statement_keyword # NoStatement
            /\ ~(p # 0 /\ tokens[p].token.type = "SemiColon")
         THEN diagnostics' =
                  Append(diagnostics,
                         [range |-> ZeroWidthAtEnd(tokens, p),
                          severity |-> "INFORMATION",
                          code |-> "missing-semicolon",
                          source |-> "hql-ls",
                          message |-> "Missing semicolon at end of file"])
         ELSE diagnostics' = diagnostics
      ]_vars

\* C4 witness: the call is over with the end-of-file diagnostic last, at
\* the end of a token that whitespace follows.
C4_Witness ==
    /\ pc = "done"
    /\ diagnostics # <<>>
    /\ LET d == diagnostics[Len(diagnostics)]
           p == PrevNonWhitespace(tokens, Len(tokens) + 1)
       IN /\ d.message = "Missing semicolon at end of file"
          /\ p # 0
          /\ p < Len(tokens)
          /\ d.range = ZeroWidthAtEnd(tokens, p)

\* C5: whenever check_semicolons skips its end-of-file check because its
\* paren depth is not 0 (a statement is open at end of stream), then
\* check_parentheses on the same tokens reports exactly one 'Unbalanced
\* parentheses' Error, so the stream is not left without a diagnostic.
C5_SkippedCheckIsReportedByParentheses ==
    (pc = "done" /\ paren_balance # 0 /\ current_statement_keyword # NoStatement) =>
        /\ Len(check_parentheses(tokens)) = 1
        /\ check_parentheses(tokens)[1].severity = "ERROR"

\* C6: a statement starter met at paren depth greater than 0 emits no
\* diagnostic and leaves openStatement unchanged.
C6_NoBoundaryInsideParentheses ==
    [][(AtStarter /\ paren_balance > 0 /\ i' = i + 1) =>
         /\ diagnostics' = diagnostics
         /\ current_statement_keyword' = current_statement_keyword
      ]_vars

\* C6 witness: a starter other than the open statement has just been
\* consumed inside parentheses, after a token that is not a semicolon,
\* with no diagnostic.
C6_Witness ==
    /\ AfterStarter
    /\ paren_balance > 0
    /\ current_statement_keyword # NoStatement
    /\ current_statement_keyword # to_uppercase(tokens[i - 1].token.value)
    /\ tokens[PrevNonWhitespace(tokens, i - 1)].token.type # "SemiColon"
    /\ diagnostics = <<>>

\* C7: a semicolon token clears openStatement exactly when paren depth is
\* 0, leaves it unchanged at depth greater than 0, and becomes the last
\* significant token in both cases.
C7_SemicolonClosesOnlyAtDepthZero ==
    [][(pc = "loop" /\ i <= Len(tokens) /\ i' = i + 1
        /\ tokens[i].token.type = "SemiColon") =>
         /\ current_statement_keyword' =
                IF paren_balance = 0 THEN NoStatement
                ELSE current_statement_keyword
         /\ last_significant_token_idx' = i
      ]_vars

\* C7 witness: a semicolon has just been consumed inside parentheses and
\* the statement is still open.
C7_Witness ==
    /\ pc = "loop"
    /\ i > 1
    /\ tokens[i - 1].token.type = "SemiColon"
    /\ paren_balance > 0
    /\ current_statement_keyword # NoStatement
    /\ last_significant_token_idx = i - 1

\* The engine's state when it reaches token k.
StateBefore(toks, k) == SemiLoop(SubSeq(toks, 1, k - 1), 1, SemiInit)

\* Token k is a depth-0 statement starter that is not a continuation.
BeginsStatement(toks, k) ==
    /\ toks[k].token.type = "Word"
    /\ to_uppercase(toks[k].token.value) \in statement_starters
    /\ StateBefore(toks, k).paren_balance = 0
    /\ ~(/\ to_uppercase(toks[k].token.value) = "SELECT"
         /\ StateBefore(toks, k).current_statement_keyword
                \in {"WITH", "INSERT", "CREATE", "EXPLAIN"})

\* Every statement of the stream is terminated: each token that begins a
\* statement is the first non-whitespace token or directly follows a
\* semicolon, and the last non-whitespace token is a semicolon.
WellTerminated(toks) ==
    /\ \A k \in 1..Len(toks) :
          BeginsStatement(toks, k) =>
              \/ PrevNonWhitespace(toks, k) = 0
              \/ toks[PrevNonWhitespace(toks, k)].token.type = "SemiColon"
    /\ PrevNonWhitespace(toks, Len(toks) + 1) # 0
    /\ toks[PrevNonWhitespace(toks, Len(toks) + 1)].token.type = "SemiColon"

\* C8: on a stream whose statements are all terminated check_semicolons
\* emits no diagnostic.
C8_TerminatedStatementsAreSilent ==
    (pc = "done" /\ WellTerminated(tokens)) => diagnostics = <<>>

\* C8 witness: the call is over, silent, on a terminated stream in which a
\* statement begins after a semicolon and whitespace.
C8_Witness ==
    /\ pc = "done"
    /\ WellTerminated(tokens)
    /\ \E k \in 3..Len(tokens) :
          /\ BeginsStatement(tokens, k)
          /\ tokens[k - 1].token.type = "Whitespace"
          /\ PrevNonWhitespace(tokens, k) # 0
    /\ diagnostics = <<>>

\* The rule a diagnostic comes from, by the fields the rules set: 1
\* trailing whitespace, 2 Hive variable, 3 keyword casing, 4 semicolon,
\* 5 parentheses, 6 missing comma, 7 the tokenizer's error.
RuleOf(d) ==
    CASE d.code = "trailing-whitespace" -> 1
      [] d.code = "keyword-casing"      -> 3
      [] d.code = "missing-semicolon"   -> 4
      [] d.code = "missing-comma"       -> 6
      [] d.code = "None" /\ d.source = "None"       -> 5
      [] d.code = "None" /\ d.severity = "WARNING"  -> 2
      [] OTHER                          -> 7

\* The sub-list of a diagnostic list that comes from rule r.
OfRule(ds, r) ==
    LET RECURSIVE Pick(_)
        Pick(k) == IF k > Len(ds) THEN <<>>
                   ELSE (IF RuleOf(ds[k]) = r THEN <<ds[k]>> ELSE <<>>) \o Pick(k + 1)
    IN Pick(1)

\* The rule's toggle in the configuration.
RuleEnabled(r, cfg) ==
    CASE r = 1 -> cfg.rules.trailing_whitespace
      [] r = 2 -> cfg.rules.hive_variable
      [] r = 3 -> cfg.rules.keyword_casing
      [] r = 4 -> cfg.rules.semicolon
      [] r = 5 -> cfg.rules.parentheses
      [] r = 6 -> cfg.rules.missing_comma

\* The rule's own output on the text (a token rule has none when the text
\* does not tokenize).
RuleOutput(r, t) ==
    CASE r = 1 -> check_trailing_whitespace(t)
      [] r = 2 -> check_hive_variables(t)
      [] r = 3 -> IF Tokenize(t).ok THEN check_keyword_casing(Tokenize(t).tokens) ELSE <<>>
      [] r = 4 -> IF Tokenize(t).ok THEN check_semicolons(Tokenize(t).tokens) ELSE <<>>
      [] r = 5 -> IF Tokenize(t).ok THEN check_parentheses(Tokenize(t).tokens) ELSE <<>>
      [] r = 6 -> IF Tokenize(t).ok THEN check_missing_comma(Tokenize(t).tokens, t) ELSE <<>>

\* lint ran its rules: it was enabled and the text within the size limit.
Linted ==
    /\ pc = "returned"
    /\ config.enabled
    /\ ByteLen(text) <= config.max_file_size

\* C9: when tokenization fails, no token rule contributes whatever its
\* toggle; the result is the enabled text rules' diagnostics followed by
\* exactly one Error with the tokenizer's message at the zero range when
\* rules.string_literal is on, and by nothing when it is off.
C9_TokenizerFailure ==
    (Linted /\ ~Tokenize(text).ok) =>
        LET kept == (IF config.rules.trailing_whitespace
                     THEN check_trailing_whitespace(text) ELSE <<>>)
                    \o (IF config.rules.hive_variable
                        THEN check_hive_variables(text) ELSE <<>>)
            err  == [range |-> [start |-> [line |-> 0, character |-> 0],
                                end |-> [line |-> 0, character |-> 0]],
                     severity |-> "ERROR", code |-> "None", source |-> "hql-ls",
                     message |-> Tokenize(text).message]
        IN /\ \A k \in DOMAIN result : RuleOf(result[k]) \notin 3..6
           /\ result = IF config.rules.string_literal THEN Append(kept, err)
                       ELSE kept

\* C9 witness: lint has returned, for a text that does not tokenize and
\* with every rule on, a text-rule diagnostic followed by the error.
C9_Witness ==
    /\ Linted
    /\ ~Tokenize(text).ok
    /\ \A r \in DOMAIN config.rules : config.rules[r]
    /\ Len(result) >= 2
    /\ RuleOf(result[1]) \in 1..2
    /\ result[Len(result)].severity = "ERROR"
    /\ result[Len(result)].message = Tokenize(text).message

\* C10: the list lint returns holds, for each rule, exactly that rule's
\* output when the rule is enabled and nothing of it when disabled, and
\* the rules' diagnostics follow the fixed order trailing whitespace, Hive
\* variable, keyword casing, semicolon, parentheses, missing comma.
C10_FixedRuleOrder ==
    Linted =>
        /\ \A a, b \in DOMAIN result :
              a < b => RuleOf(result[a]) <= RuleOf(result[b])
        /\ \A r \in 1..6 :
              OfRule(result, r) =
                  IF RuleEnabled(r, config) THEN RuleOutput(r, text) ELSE <<>>

\* C10 witness: lint has returned diagnostics of all six rules.
C10_Witness ==
    /\ Linted
    /\ Tokenize(text).ok
    /\ \A r \in 1..6 : OfRule(result, r) # <<>>

\* The toggles of LintingRules.
Toggles == DOMAIN DefaultLintingConfig.rules

\* The toggle that switches rule r (7 is the tokenizer's error).
ToggleOf(r) ==
    CASE r = 1 -> "trailing_whitespace"
      [] r = 2 -> "hive_variable"
      [] r = 3 -> "keyword_casing"
      [] r = 4 -> "semicolon"
      [] r = 5 -> "parentheses"
      [] r = 6 -> "missing_comma"
      [] r = 7 -> "string_literal"

\* The configuration with one toggle switched over.
Flipped(cfg, q) == [cfg EXCEPT !.rules[q] = ~@]

\* C11: for a fixed text, linting enabled and the size within the limit,
\* the diagnostics any one rule contributes are the same whatever the
\* toggles of the other rules are (switching any other single toggle over
\* still gives a result, with the same sub-list of the rule), and a
\* reported parentheses Error keeps no enabled rule from contributing its
\* output.
C11_RulesAreIndependent ==
    Linted =>
        /\ \A r \in 1..7 : \A q \in Toggles \ {ToggleOf(r)} :
              /\ ~LintPanics(text, Flipped(config, q))
              /\ OfRule(lint(text, Flipped(config, q)), r) = OfRule(result, r)
        /\ (Tokenize(text).ok /\ OfRule(result, 5) # <<>>) =>
              \A r \in 1..6 :
                  RuleEnabled(r, config) => OfRule(result, r) = RuleOutput(r, text)

\* C12: two calls of lint with the same text and the same configuration
\* return identical diagnostic lists, whatever other calls were made
\* before or between them.
C12_LintIsDeterministic ==
    \A a, b \in DOMAIN calls :
        (calls[a].text = calls[b].text /\ calls[a].config = calls[b].config)
            => calls[a].result = calls[b].result

\* C12 witness: the first and third calls had the same text and
\* configuration and returned the same diagnostics; the call between them
\* ran check_semicolons on another text and returned diagnostics too.
C12_Witness ==
    /\ Len(calls) = 3
    /\ calls[1].text = calls[3].text
    /\ calls[1].config = calls[3].config
    /\ calls[2].text # calls[1].text
    /\ RunsSemicolons(calls[1].text, calls[1].config)
    /\ RunsSemicolons(calls[2].text, calls[2].config)
    /\ ~LintPanics(calls[1].text, calls[1].config)
    /\ ~LintPanics(calls[2].text, calls[2].config)
    /\ calls[1].result # <<>>
    /\ calls[2].result # <<>>
    /\ calls[3].result = calls[1].result

\* Number of tokens of the given type among the first n.
CountOf(toks, type, n) ==
    Cardinality({k \in 1..n : toks[k].token.type = type})

\* LeftParen tokens minus RightParen tokens among the first n.
Balance(toks, n) == CountOf(toks, "LParen", n) - CountOf(toks, "RParen", n)

\* The first token at which the running balance is negative.
FirstNegative(toks) ==
    CHOOSE n \in 1..Len(toks) :
        /\ Balance(toks, n) < 0
        /\ \A m \in 1..(n - 1) : Balance(toks, m) >= 0

\* check_parentheses has returned.
ParenthesesChecked == pc = "check_parentheses"

\* C13: check_parentheses emits nothing when the final balance is 0, even
\* if the running balance was negative on the way, and never more than
\* one diagnostic.
C13_BalancedIsSilent ==
    ParenthesesChecked =>
        /\ Balance(tokens, Len(tokens)) = 0 => result = <<>>
        /\ Len(result) <= 1

\* C13 witness: nothing was emitted for a stream whose final balance is 0
\* and whose running balance was negative at some token.
C13_Witness ==
    /\ ParenthesesChecked
    /\ Balance(tokens, Len(tokens)) = 0
    /\ \E n \in 1..Len(tokens) : Balance(tokens, n) < 0
    /\ result = <<>>

\* C14: when the final balance n is greater than 0, check_parentheses
\* emits one Error at the zero range whose message is "Unbalanced
\* parentheses: <n> unclosed '('".
C14_UnclosedMessage ==
    (ParenthesesChecked /\ Balance(tokens, Len(tokens)) > 0) =>
        /\ Len(result) = 1
        /\ result[1].severity = "ERROR"
        /\ result[1].range = [start |-> [line |-> 0, character |-> 0],
                              end |-> [line |-> 0, character |-> 0]]
        /\ result[1].message =
               "Unbalanced parentheses: "
                   \o ToString(Balance(tokens, Len(tokens))) \o " unclosed '('"

\* C15: when the final balance is less than 0, check_parentheses emits one
\* Error "Unbalanced parentheses: extra ')'" whose range is the span,
\* coordinates minus one, of the first RightParen at which the running
\* balance became negative.
C15_ExtraAtFirstNegative ==
    (ParenthesesChecked /\ Balance(tokens, Len(tokens)) < 0) =>
        LET span == tokens[FirstNegative(tokens)].span IN
        /\ Len(result) = 1
        /\ result[1].severity = "ERROR"
        /\ result[1].message = "Unbalanced parentheses: extra ')'"
        /\ result[1].range =
               [start |-> [line |-> span.start.line - 1,
                           character |-> span.start.column - 1],
                end   |-> [line |-> span.end.line - 1,
                           character |-> span.end.column - 1]]

\* C15 witness: the Error sits at the first negative point of a stream
\* whose balance came back to 0 and went negative again at a later
\* RightParen, on another line.
C15_Witness ==
    /\ ParenthesesChecked
    /\ Balance(tokens, Len(tokens)) < 0
    /\ Len(result) = 1
    /\ \E n, m \in 1..Len(tokens) :
          /\ FirstNegative(tokens) < n
          /\ n < m
          /\ Balance(tokens, n) = 0
          /\ Balance(tokens, m) < 0
          /\ tokens[m].span.start.line # tokens[FirstNegative(tokens)].span.start.line
    /\ result[1].range.start =
           [line |-> tokens[FirstNegative(tokens)].span.start.line - 1,
            character |-> tokens[FirstNegative(tokens)].span.start.column - 1]

\* check_keyword_casing has returned.
KeywordCasingChecked == pc = "check_keyword_casing"

\* The tokens the keyword-casing rule is to flag: unquoted Words whose
\* uppercased text is a keyword and whose text is not uppercase.
MiscasedKeywords(toks) ==
    {k \in 1..Len(toks) :
        /\ toks[k].token.type = "Word"
        /\ toks[k].token.quote_style = "None"
        /\ to_uppercase(toks[k].token.value) \in keywords
        /\ toks[k].token.value # to_uppercase(toks[k].token.value)}

\* The range of token k's span, coordinates minus one.
RangeOfToken(toks, k) ==
    [start |-> [line |-> toks[k].span.start.line - 1,
                character |-> toks[k].span.start.column - 1],
     end   |-> [line |-> toks[k].span.end.line - 1,
                character |-> toks[k].span.end.column - 1]]

\* C16: check_keyword_casing emits a 'keyword-casing' Warning for a token
\* if and only if the token is a Word, is not quoted, its uppercased text
\* is a keyword and its text differs from its uppercase form; exactly one
\* per such token, at the token's span; a quoted Word is never flagged.
C16_KeywordCasing ==
    KeywordCasingChecked =>
        /\ Len(result) = Cardinality(MiscasedKeywords(tokens))
        /\ \A k \in MiscasedKeywords(tokens) :
              Cardinality({n \in DOMAIN result :
                              result[n].range = RangeOfToken(tokens, k)}) = 1
        /\ \A n \in DOMAIN result :
              /\ result[n].severity = "WARNING"
              /\ result[n].code = "keyword-casing"
              /\ \E k \in MiscasedKeywords(tokens) :
                    result[n].range = RangeOfToken(tokens, k)
        /\ \A k \in 1..Len(tokens) :
              tokens[k].token.quote_style # "None" =>
                  \A n \in DOMAIN result :
                      result[n].range # RangeOfToken(tokens, k)

\* C16 witness: one token was flagged in a stream that also holds a quoted
\* Word with a keyword's text and a keyword in uppercase.
C16_Witness ==
    /\ KeywordCasingChecked
    /\ Len(result) = 1
    /\ \E k \in 1..Len(tokens) :
          /\ tokens[k].token.quote_style # "None"
          /\ tokens[k].token.value = "select"
    /\ \E k \in 1..Len(tokens) :
          /\ tokens[k].token.type = "Word"
          /\ tokens[k].token.value = "SELECT"

\* check_hive_variables has returned.
HiveVariablesChecked == pc = "check_hive_variables"

\* The `${...}` matches of a text: line n, lexeme m of the line.
HiveMatches(t) ==
    {nm \in (1..Len(Lines(t))) \X (1..Len(t)) :
        /\ nm[2] <= Len(Lines(t)[nm[1]])
        /\ Lines(t)[nm[1]][nm[2]] \in HiveReferences}

\* The range of a match: its line, from its first byte to past its last.
RangeOfMatch(t, nm) ==
    LET line == Lines(t)[nm[1]] IN
    [start |-> [line |-> nm[1] - 1,
                character |-> ByteLen(SubSeq(line, 1, nm[2] - 1))],
     end   |-> [line |-> nm[1] - 1,
                character |-> ByteLen(SubSeq(line, 1, nm[2]))]]

\* A content that is empty or made of blanks only.
Blank(cs) == \A k \in 1..Len(cs) : cs[k] \in {" ", "\t"}

\* The first of the four checks that applies to a content, 0 when the
\* reference is well-formed.
FirstCheck(inner) ==
    LET HasColon == \E k \in 1..Len(inner) : inner[k] = ":"
        c == FirstColon(inner)
    IN CASE Blank(inner) -> 1
         [] ~Blank(inner) /\ ~HasColon -> 2
         [] ~Blank(inner) /\ HasColon
              /\ Join(SubSeq(inner, 1, c - 1))
                     \notin {"hiveconf", "hivevar", "env", "system", "define"} -> 3
         [] ~Blank(inner) /\ HasColon
              /\ Join(SubSeq(inner, 1, c - 1))
                     \in {"hiveconf", "hivevar", "env", "system", "define"}
              /\ Blank(SubSeq(inner, c + 1, Len(inner))) -> 4
         [] OTHER -> 0

\* The check a Warning's message reports.
CheckOfMessage(message) ==
    CASE message = "Empty Hive variable" -> 1
      [] message = "Invalid Hive variable: missing colon (expected ${namespace:name})"
             -> 2
      [] message = "Variable name is empty" -> 4
      [] OTHER -> 3

\* The diagnostics reported at a match.
AtMatch(t, nm) ==
    {n \in DOMAIN result : result[n].range = RangeOfMatch(t, nm)}

\* C17: each `${...}` match gets exactly one Warning, that of the first
\* applicable of the four checks (blank content, no ':', namespace not one
\* of the five, blank name), and none when the reference is well-formed;
\* no match gets two diagnostics.
C17_HiveChecksInOrder ==
    HiveVariablesChecked =>
        /\ \A nm \in HiveMatches(text) :
              LET check == FirstCheck(HiveInner(Lines(text)[nm[1]][nm[2]])) IN
              IF check = 0 THEN AtMatch(text, nm) = {}
              ELSE /\ Cardinality(AtMatch(text, nm)) = 1
                   /\ \A n \in AtMatch(text, nm) :
                         /\ result[n].severity = "WARNING"
                         /\ CheckOfMessage(result[n].message) = check
        /\ \A n \in DOMAIN result :
              \E nm \in HiveMatches(text) : n \in AtMatch(text, nm)

\* C17 witness: of two matches of a line, the one whose namespace is
\* invalid and whose name is empty got the namespace Warning alone, and
\* the well-formed one got nothing.
C17_Witness ==
    /\ HiveVariablesChecked
    /\ Len(result) = 1
    /\ CheckOfMessage(result[1].message) = 3
    /\ \E nm, ok \in HiveMatches(text) :
          /\ nm[1] = ok[1]
          /\ Lines(text)[nm[1]][nm[2]] = "${bad:}"
          /\ Lines(text)[ok[1]][ok[2]] = "${env:x}"

\* check_trailing_whitespace has returned.
TrailingWhitespaceChecked == pc = "check_trailing_whitespace"

\* Number of lexemes of a line before its trailing blanks.
ContentLen(line) ==
    CHOOSE m \in 0..Len(line) :
        /\ \A k \in (m + 1)..Len(line) : line[k] \in {" ", "\t"}
        /\ m = 0 \/ line[m] \notin {" ", "\t"}

\* The lines, by number, whose last character is a space or a tab.
BlankEnded(t) ==
    {n \in 1..Len(Lines(t)) :
        /\ Lines(t)[n] # <<>>
        /\ Lines(t)[n][Len(Lines(t)[n])] \in {" ", "\t"}}

RECURSIVE CharLen(_)
\* The length of a line in characters.
CharLen(line) ==
    IF line = <<>> THEN 0 ELSE CharWidth(Head(line)) + CharLen(Tail(line))

\* The character at (zero-based) column c of the line is a space or a tab.
BlankAt(line, c) ==
    \E m \in 1..Len(line) :
        /\ line[m] \in {" ", "\t"}
        /\ CharLen(SubSeq(line, 1, m - 1)) = c

\* C18: check_trailing_whitespace emits one Hint per line whose last
\* character is a space or a tab and none for any other line; its range
\* is on that line, from the column right after the content left once the
\* trailing blanks are removed to the raw length of the line; every
\* character inside the range is trailing whitespace, and the character
\* just before the range start, if any, is not a space or a tab.
C18_TrailingWhitespace ==
    TrailingWhitespaceChecked =>
        /\ Len(result) = Cardinality(BlankEnded(text))
        /\ \A n \in 1..Len(Lines(text)) :
              LET line == Lines(text)[n]
                  here == {k \in DOMAIN result : result[k].range.start.line = n - 1}
              IN IF n \in BlankEnded(text)
                 THEN /\ Cardinality(here) = 1
                      /\ \A k \in here :
                            LET from == result[k].range.start.character
                                to   == result[k].range.end.character
                            IN /\ result[k].severity = "HINT"
                               /\ result[k].range.end.line = n - 1
                               /\ from = CharLen(SubSeq(line, 1, ContentLen(line)))
                               /\ to = CharLen(line)
                               /\ \A c \in from..(to - 1) : BlankAt(line, c)
                               /\ from > 0 => ~BlankAt(line, from - 1)
                 ELSE here = {}

\* check_missing_comma has returned.
MissingCommaChecked == pc = "check_missing_comma"

\* The first token after token k that is not whitespace, 0 when none.
NextSignificant(toks, k) ==
    IF \E j \in (k + 1)..Len(toks) : toks[j].token.type # "Whitespace"
    THEN CHOOSE j \in (k + 1)..Len(toks) :
            /\ toks[j].token.type # "Whitespace"
            /\ \A m \in (k + 1)..(j - 1) : toks[m].token.type = "Whitespace"
    ELSE 0

\* Token k is a Word, the next token that is not whitespace is a Word,
\* and the first ends on an earlier line than the second starts.
CrossLinePair(toks, k) ==
    /\ toks[k].token.type = "Word"
    /\ NextSignificant(toks, k) # 0
    /\ toks[NextSignificant(toks, k)].token.type = "Word"
    /\ toks[k].span.end.line < toks[NextSignificant(toks, k)].span.start.line

\* The diagnostics reported at the end of token k.
AtEndOf(toks, k) ==
    {n \in DOMAIN result : result[n].range = ZeroWidthAtEnd(toks, k)}

\* C19: check_missing_comma emits nothing for two Words of which the
\* first ends on the line the second starts on, nor for a pair separated
\* by a token that is not whitespace; every diagnostic belongs to a pair
\* of Words separated by whitespace only and lying on different lines.
C19_OnlyCrossLinePairs ==
    MissingCommaChecked =>
        /\ \A k \in 1..Len(tokens) :
              (tokens[k].token.type = "Word" /\ ~CrossLinePair(tokens, k))
                  => AtEndOf(tokens, k) = {}
        /\ \A n \in DOMAIN result :
              \E k \in 1..Len(tokens) :
                  CrossLinePair(tokens, k) /\ n \in AtEndOf(tokens, k)

\* C19 witness: one pair was flagged in a stream that also holds two
\* Words on one line and two Words on different lines with a comma
\* between them.
C19_Witness ==
    /\ MissingCommaChecked
    /\ Len(result) = 1
    /\ \E k \in 1..Len(tokens) :
          /\ tokens[k].token.type = "Word"
          /\ NextSignificant(tokens, k) # 0
          /\ tokens[NextSignificant(tokens, k)].token.type = "Word"
          /\ tokens[k].span.end.line
                 = tokens[NextSignificant(tokens, k)].span.start.line
    /\ \E k \in 1..Len(tokens) :
          /\ tokens[k].token.type = "Word"
          /\ NextSignificant(tokens, k) # 0
          /\ tokens[NextSignificant(tokens, k)].token.type = "Comma"
          /\ \E j \in (k + 1)..Len(tokens) :
                /\ tokens[j].token.type = "Word"
                /\ tokens[k].span.end.line < tokens[j].span.start.line

\* What follows token k on its line, after spaces, starts with ','.
CommaFollows(toks, k) ==
    \E j \in (k + 1)..Len(toks) :
        /\ toks[j].token.type = "Comma"
        /\ \A m \in (k + 1)..(j - 1) : toks[m].token.value \in {" ", "\t"}

\* The set of clause starters.
ClauseStarters ==
    {"FROM", "WHERE", "GROUP", "ORDER", "HAVING", "LIMIT", "OFFSET", "UNION",
     "LATERAL", "DISTINCT", "JOIN", "INNER", "LEFT", "RIGHT", "FULL", "CROSS",
     "ON", "AS", "USING", "WINDOW", "AND", "OR", "XOR", "CASE", "WHEN", "THEN",
     "ELSE", "END", "IS", "NOT", "IN", "BETWEEN", "LIKE", "RLIKE", "REGEXP",
     "OVER", "PARTITION", "BY", "ROWS", "RANGE", "UNBOUNDED", "PRECEDING",
     "FOLLOWING", "CURRENT", "ROW"}

\* C20: for a cross-line pair of adjacent Words (w1, w2),
\* check_missing_comma emits the 'Possible missing comma between columns
\* in SELECT list' Warning, zero-width at the end of w1, if and only if
\* what follows w1 on its line does not start (after spaces) with ',',
\* the uppercase of w2 is not a clause starter, and the uppercase of w1 is
\* neither a clause starter nor SELECT (w2 being SELECT suppresses
\* nothing).
C20_MissingCommaCondition ==
    MissingCommaChecked =>
        \A k \in 1..Len(tokens) :
            CrossLinePair(tokens, k) =>
                LET w1 == to_uppercase(tokens[k].token.value)
                    w2 == to_uppercase(tokens[NextSignificant(tokens, k)].token.value)
                    due == /\ ~CommaFollows(tokens, k)
                           /\ w2 \notin ClauseStarters
                           /\ w1 \notin ClauseStarters \cup {"SELECT"}
                IN IF due
                   THEN /\ Cardinality(AtEndOf(tokens, k)) = 1
                        /\ \A n \in AtEndOf(tokens, k) :
                              /\ result[n].severity = "WARNING"
                              /\ result[n].message =
                                    "Possible missing comma between columns in SELECT list"
                   ELSE AtEndOf(tokens, k) = {}

RECURSIVE DepthAfter(_, _)
\* The paren depth after the first n tokens, as the depth rule states it:
\* plus 1 for a LeftParen, minus 1 for a RightParen when positive,
\* unchanged by every other token.
DepthAfter(toks, n) ==
    IF n = 0 THEN 0
    ELSE LET before == DepthAfter(toks, n - 1) IN
         CASE toks[n].token.type = "LParen" -> before + 1
           [] toks[n].token.type = "RParen" /\ before > 0 -> before - 1
           [] OTHER -> before

\* Token k is a RightParen met at depth 0: the engine clamps there.
ClampedAt(toks, k) ==
    toks[k].token.type = "RParen" /\ DepthAfter(toks, k - 1) = 0

\* C24: the paren depth kept by check_semicolons is at least 0 in every
\* reachable state; after any prefix of the token stream it is the depth
\* before plus 1 for a LeftParen, minus 1 for a RightParen when positive,
\* and unchanged by every other token, so that a RightParen met at depth 0
\* leaves the depth at 0.
C24_DepthNeverNegative ==
    /\ paren_balance >= 0
    /\ paren_balance = DepthAfter(tokens, i - 1)
    /\ (i > 1 /\ ClampedAt(tokens, i - 1)) => paren_balance = 0

\* C24 witness: a RightParen was met at depth 0 and a LeftParen after it,
\* and the depth is 1, not 0.
C24_Witness ==
    /\ pc = "loop"
    /\ i > 2
    /\ \E k \in 1..(i - 2) : ClampedAt(tokens, k)
    /\ tokens[i - 1].token.type = "LParen"
    /\ paren_balance = 1

\* C25: whenever check_semicolons clamps at least once on a token stream
\* (meets a RightParen at depth 0), check_parentheses emits an 'Unbalanced
\* parentheses' Error for that stream.
C25_ClampedIsReportedByParentheses ==
    (pc = "done" /\ \E k \in 1..Len(tokens) : ClampedAt(tokens, k)) =>
        \E n \in DOMAIN check_parentheses(tokens) :
            check_parentheses(tokens)[n].severity = "ERROR"

\* Token j is a depth-0 WITH, INSERT, CREATE or EXPLAIN.
OpensAt(toks, j) ==
    /\ toks[j].token.type = "Word"
    /\ to_uppercase(toks[j].token.value) \in {"WITH", "INSERT", "CREATE", "EXPLAIN"}
    /\ DepthAfter(toks, j - 1) = 0

\* Token m is a depth-0 semicolon or a depth-0 statement starter other
\* than SELECT.
ClosesAt(toks, m) ==
    /\ DepthAfter(toks, m - 1) = 0
    /\ \/ toks[m].token.type = "SemiColon"
       \/ /\ toks[m].token.type = "Word"
          /\ to_uppercase(toks[m].token.value) \in statement_starters \ {"SELECT"}

\* Token k is a depth-0 SELECT met while the statement opened at token j
\* is still open.
SelectAfter(toks, j, k) ==
    /\ j < k
    /\ OpensAt(toks, j)
    /\ toks[k].token.type = "Word"
    /\ to_uppercase(toks[k].token.value) = "SELECT"
    /\ DepthAfter(toks, k - 1) = 0
    /\ \A m \in (j + 1)..(k - 1) : ~ClosesAt(toks, m)

\* The 'end of statement' diagnostics placed before token k.
EndOfStatementBefore(toks, k, ds) ==
    {n \in DOMAIN ds :
        /\ ds[n].message = "Missing semicolon at end of statement"
        /\ PrevNonWhitespace(toks, k) # 0
        /\ ds[n].range = ZeroWidthAtEnd(toks, PrevNonWhitespace(toks, k))}

\* C30: once a WITH, INSERT, CREATE or EXPLAIN statement is open, every
\* later SELECT at paren depth 0 is a continuation, not only the first
\* one: until a depth-0 semicolon or a depth-0 starter other than SELECT
\* is met, no 'end of statement' diagnostic is emitted for any of them
\* and the open statement stays the one that was opened.
C30_EveryLaterSelectContinues ==
    \A k \in 1..(i - 1) : \A j \in 1..(k - 1) :
        SelectAfter(tokens, j, k) =>
            /\ EndOfStatementBefore(tokens, k, diagnostics) = {}
            /\ (pc = "loop" /\ k = i - 1) =>
                   current_statement_keyword = to_uppercase(tokens[j].token.value)

\* C30 witness: two SELECTs after the same open statement, each after a
\* token that is not a semicolon, are consumed, and the only diagnostic
\* is the one at end of file.
C30_Witness ==
    /\ pc = "done"
    /\ \E j, k1, k2 \in 1..Len(tokens) :
          /\ k1 < k2
          /\ SelectAfter(tokens, j, k1)
          /\ SelectAfter(tokens, j, k2)
          /\ tokens[PrevNonWhitespace(tokens, k1)].token.type # "SemiColon"
          /\ tokens[PrevNonWhitespace(tokens, k2)].token.type # "SemiColon"
    /\ Len(diagnostics) = 1
    /\ diagnostics[1].message = "Missing semicolon at end of file"

\* A single rule has returned its diagnostics.
RuleReturned ==
    pc \in {"check_trailing_whitespace", "check_hive_variables",
            "check_keyword_casing", "check_semicolons", "check_parentheses",
            "check_missing_comma"}

\* Position p is not after position q in the text (line, then column).
NotAfter(p, q) ==
    \/ p.line < q.line
    \/ p.line = q.line /\ p.character <= q.character

\* C26: within the output of any single rule the diagnostics are in text
\* order, their start positions (line, then column) non-decreasing along
\* the list; the 'end of file' diagnostic of check_semicolons, when
\* present, is the last of the rule's list and is not positioned before
\* any 'end of statement' diagnostic.
C26_RuleOutputInTextOrder ==
    RuleReturned =>
        /\ \A a, b \in DOMAIN result :
              a < b => NotAfter(result[a].range.start, result[b].range.start)
        /\ \A a \in DOMAIN result :
              result[a].message = "Missing semicolon at end of file" =>
                  /\ a = Len(result)
                  /\ \A b \in DOMAIN result :
                        NotAfter(result[b].range.start, result[a].range.start)

\* C26 witness: check_semicolons has returned two 'end of statement'
\* diagnostics on different lines and the 'end of file' diagnostic after
\* them, at three different positions.
C26_Witness ==
    /\ pc = "check_semicolons"
    /\ Len(result) = 3
    /\ result[1].message = "Missing semicolon at end of statement"
    /\ result[2].message = "Missing semicolon at end of statement"
    /\ result[3].message = "Missing semicolon at end of file"
    /\ result[1].range.start.line < result[2].range.start.line
    /\ result[2].range.start # result[3].range.start

\* The default configuration as the documentation of the configuration
\* shape gives it.
DocumentedDefault ==
    [enabled |-> TRUE, severity |-> "Warning", max_file_size |-> 1048576,
     rules |-> [keyword_casing |-> FALSE, semicolon |-> TRUE,
                string_literal |-> TRUE, parentheses |-> TRUE,
                trailing_whitespace |-> TRUE, missing_comma |-> FALSE,
                hive_variable |-> TRUE]]

\* C23: under the default configuration linting is enabled with
\* max_file_size 1,048,576, keywordCasing and missingComma off and the
\* five other rules on; hence lint with the default configuration never
\* returns a 'keyword-casing' or 'missing-comma' diagnostic.
C23_DefaultConfiguration ==
    /\ DefaultLintingConfig = DocumentedDefault
    /\ (pc = "returned" /\ config = DefaultLintingConfig) =>
          \A k \in DOMAIN result :
              result[k].code \notin {"keyword-casing", "missing-comma"}

\* C23 witness: lint has returned diagnostics under the default
\* configuration for a text that has a miscased keyword and a missing
\* comma, both reported when their rules are on.
C23_Witness ==
    /\ pc = "returned"
    /\ config = DefaultLintingConfig
    /\ result # <<>>
    /\ Tokenize(text).ok
    /\ check_keyword_casing(Tokenize(text).tokens) # <<>>
    /\ ~MissingCommaPanics(Tokenize(text).tokens, text)
    /\ check_missing_comma(Tokenize(text).tokens, text) # <<>>

\* C27: every lint invocation terminates on any finite text: each scan
\* runs with a strictly increasing index, the look-ahead of
\* check_missing_comma included, so the rule lint has called always
\* reaches its return (and lint its own).
C27_LintReachesItsReturn ==
    /\ [][/\ i' >= i
          /\ (pc = "while" /\ pc' = "while") => lookahead' > lookahead
          /\ (pc = "for" /\ pc' = "for") => i' > i]_vars
    /\ <>(pc = "done")

\* Handler h is a did_open or did_change call.
IsDocument(h) ==
    handlers[h].params.method \in {"textDocument/didOpen", "textDocument/didChange"}

\* Handler h is a did_change_configuration call.
IsConfiguration(h) ==
    handlers[h].params.method = "workspace/didChangeConfiguration"

\* Handler h has published the diagnostics of its lint pass.
Published(h) ==
    /\ IsDocument(h)
    /\ handlers[h].pc \in {"publishing", "done"}
    /\ handlers[h].sent_at > 0

\* Handler h is a did_change_configuration call that has replaced the
\* configuration.
Wrote(h) ==
    /\ IsConfiguration(h)
    /\ handlers[h].pc \in {"written", "done"}
    /\ Parsed(handlers[h].params).ok

\* Handler h is a did_change_configuration call that has returned without
\* a configuration to store.
Rejected(h) ==
    /\ IsConfiguration(h)
    /\ handlers[h].pc = "done"
    /\ ~Parsed(handlers[h].params).ok

\* The configuration in force when the k-th message was sent: that of the
\* last configuration change written before it, the default if none.
ConfigInForceAt(k) ==
    LET ws == {w \in DOMAIN handlers : Wrote(w) /\ handlers[w].sent_at < k} IN
    IF ws = {} THEN DefaultHqlConfig
    ELSE LET w == CHOOSE w \in ws :
                      \A v \in ws : handlers[v].sent_at <= handlers[w].sent_at
         IN Parsed(handlers[w].params).value

\* C21: while an on_change call is between the start of its lint pass and
\* the end of its publication, it holds the read lock, no writer holds the
\* lock, and the stored configuration is the one its pass read.
C21_OneSnapshotPerPass ==
    \A h \in DOMAIN handlers :
        handlers[h].pc = "publishing" =>
            /\ config_lock.writer = 0
            /\ backend_config = handlers[h].snapshot

\* A pass is being published while a configuration change with valid,
\* different settings waits for the write lock.
C21_Witness ==
    \E h, w \in DOMAIN handlers :
        /\ handlers[h].pc = "publishing"
        /\ handlers[w].pc = "parse"
        /\ Parsed(handlers[w].params).ok
        /\ Parsed(handlers[w].params).value # handlers[h].snapshot

\* C22: the stored configuration is, whole, the one parsed by the last
\* configuration change that was written, or the default when none was;
\* rejected settings leave it alone; and every configuration a lint pass
\* read is one of these whole configurations.
C22_WholeReplacementOrUnchanged ==
    /\ backend_config = ConfigInForceAt(Len(sent) + 1)
    /\ \A h \in DOMAIN handlers :
          (IsDocument(h) /\ handlers[h].pc \in {"publishing", "done", "panicked"}) =>
              handlers[h].snapshot \in
                  {DefaultHqlConfig} \cup
                  {Parsed(handlers[w].params).value :
                      w \in {v \in DOMAIN handlers : Wrote(v)}}

\* A configuration change was written, settings received after it were
\* rejected, a lint pass then read the configuration, and it was the
\* written one.
C22_Witness ==
    \E w, r, h \in DOMAIN handlers :
        /\ Wrote(w)
        /\ Rejected(r)
        /\ Published(h)
        /\ handlers[w].sent_at < handlers[r].sent_at
        /\ handlers[r].sent_at < handlers[h].sent_at
        /\ handlers[h].snapshot = Parsed(handlers[w].params).value
        /\ handlers[h].snapshot # DefaultHqlConfig
        /\ backend_config = handlers[h].snapshot

\* C28: every publication is that of a did_open or did_change call for its
\* document, none of a configuration change; and every lint pass used the
\* configuration in force when it published, the new one once a
\* configuration change was written.
C28_ConfigurationChangeNeverPublishes ==
    /\ \A k \in DOMAIN sent :
          sent[k].method = "textDocument/publishDiagnostics" =>
              \E h \in DOMAIN handlers :
                  /\ Published(h)
                  /\ handlers[h].sent_at = k
                  /\ handlers[h].params.uri = sent[k].uri
    /\ \A h \in DOMAIN handlers :
          Published(h) =>
              /\ handlers[h].snapshot = ConfigInForceAt(handlers[h].sent_at)
              /\ sent[handlers[h].sent_at].diagnostics =
                    lint(OnChangeText(handlers[h].params),
                         ConfigInForceAt(handlers[h].sent_at).linting)

\* A document was published, then a configuration change was written and
\* has returned: the document's last publication is still the old one,
\* which differs from what the new configuration gives; and a pass for
\* another document, started after the write, used the new configuration.
C28_Witness ==
    \E h, w, g \in DOMAIN handlers :
        /\ Published(h)
        /\ Wrote(w)
        /\ handlers[w].pc = "done"
        /\ Published(g)
        /\ handlers[h].sent_at < handlers[w].sent_at
        /\ handlers[w].sent_at < handlers[g].sent_at
        /\ handlers[g].params.uri # handlers[h].params.uri
        /\ handlers[g].snapshot = Parsed(handlers[w].params).value
        /\ handlers[g].snapshot # handlers[h].snapshot
        /\ \A k \in DOMAIN sent :
              (k > handlers[h].sent_at) => sent[k].uri # handlers[h].params.uri
        /\ ~LintPanics(document_map[handlers[h].params.uri], backend_config.linting)
        /\ sent[handlers[h].sent_at].diagnostics #
              lint(document_map[handlers[h].params.uri], backend_config.linting)

\* Every message is read and every handler has returned or panicked.
AllCompleted ==
    /\ inbox = <<>>
    /\ \A h \in DOMAIN handlers : handlers[h].pc \in {"done", "panicked"}

\* The index in `sent` of the last publication for a URI, 0 if none.
LastPublication(uri) ==
    LET ks == {k \in DOMAIN sent :
                  /\ sent[k].method = "textDocument/publishDiagnostics"
                  /\ sent[k].uri = uri}
    IN IF ks = {} THEN 0 ELSE CHOOSE k \in ks : \A m \in ks : m <= k

\* C29: each publication carries the URI, the version and the diagnostics
\* of the text its own call stored; and once all calls have completed, the
\* diagnostics published last for a URI by calls that all published are
\* those of the text document_map holds for it.
C29_NoStalePublication ==
    /\ \A h \in DOMAIN handlers :
          Published(h) =>
              /\ sent[handlers[h].sent_at].uri = handlers[h].params.uri
              /\ sent[handlers[h].sent_at].version = handlers[h].params.version
              /\ sent[handlers[h].sent_at].diagnostics =
                    lint(OnChangeText(handlers[h].params), handlers[h].snapshot.linting)
    /\ AllCompleted =>
          \A h \in DOMAIN handlers :
              (/\ Published(h)
               /\ handlers[h].sent_at = LastPublication(handlers[h].params.uri)
               /\ \A g \in DOMAIN handlers : handlers[g].pc # "panicked") =>
                  sent[handlers[h].sent_at].diagnostics =
                      lint(document_map[handlers[h].params.uri],
                           handlers[h].snapshot.linting)

====
